---- MODULE Spec2Model ----
(***************************************************************************)
(* A model of the Moji tree-walking interpreter (src/Moji/interpreter.py). *)
(*                                                                         *)
(* The interpreter is a set of mutually recursive visit_<Node> methods     *)
(* over one mutable dictionary, self.symbol_table.  The model keeps the    *)
(* recursion explicit: `stack` is the chain of visit_<Node> activations,   *)
(* each frame holding the node being visited, the position inside the      *)
(* method (pc) and the method's local variables under the names the source *)
(* gives them.  One step of the model is one stretch of a visit method     *)
(* between two calls of self.visit.  A Python exception unwinds the stack  *)
(* within the step that raises it, down to the handler that catches it.    *)
(***************************************************************************)
EXTENDS Integers, Sequences, FiniteSets, TLC

(***************************************************************************)
(* Bounds of the model.                                                    *)
(***************************************************************************)
\* number of top-level statements of the program
MaxStmts == 6
\* longest list the program may build (ListAppend is not taken beyond it)
MaxLen == 3

(***************************************************************************)
(* Python values.  Every value carries its Python type in t.               *)
(***************************************************************************)
PyNone == [t |-> "NoneType", v |-> 0]
PyInt(n) == [t |-> "int", v |-> n]
PyBool(b) == [t |-> "bool", v |-> IF b THEN 1 ELSE 0]
\* a list object is a reference into heap: two values with the same v are
\* the same Python object
PyList(ref) == [t |-> "list", v |-> ref]
\* the FuncDefNode instance stored by visit_FuncDefNode
PyFunc(node) == [t |-> "FuncDefNode", v |-> node]
PyStr(s) == [t |-> "str", v |-> s]
\* a float, kept as the fraction num/den
PyFloat(num, den) == [t |-> "float", v |-> <<num, den>>]
\* not a value: the marker of an operation that raises TypeError
TypeError == [t |-> "TypeError", v |-> 0]

\* isinstance(x, int): bool is a subclass of int
IsInt(x) == x.t \in {"int", "bool"}
\* Python truthiness, as used by `if condition_value:`
Truthy(x, h) ==
    CASE x.t = "NoneType" -> FALSE
      [] x.t \in {"int", "bool"} -> x.v # 0
      [] x.t = "list" -> Len(h[x.v]) > 0
      [] x.t = "str" -> x.v # ""
      [] x.t = "float" -> x.v[1] # 0
      [] OTHER -> TRUE

(***************************************************************************)
(* AST nodes (src/Moji/ast_nodes.py).  A missing optional child (Python    *)
(* None) is NoNode.                                                        *)
(***************************************************************************)
NoNode == [type |-> "None"]
ProgramNode == [type |-> "ProgramNode"]
BlockNode(statements) == [type |-> "BlockNode", statements |-> statements]
NumberNode(value) == [type |-> "NumberNode", value |-> value]
VarAccessNode(var_name) == [type |-> "VarAccessNode", var_name |-> var_name]
BinOpNode(left_node, op, right_node) ==
    [type |-> "BinOpNode", left_node |-> left_node, op |-> op,
     right_node |-> right_node]
FuncCallNode(func_name, arg_nodes) ==
    [type |-> "FuncCallNode", node_to_call |-> VarAccessNode(func_name),
     arg_nodes |-> arg_nodes]
VarDeclareNode(var_type, var_name, value_node) ==
    [type |-> "VarDeclareNode", var_type |-> var_type, var_name |-> var_name,
     value_node |-> value_node]
VarAssignNode(var_name, value_node) ==
    [type |-> "VarAssignNode", var_name |-> var_name, value_node |-> value_node]
IfNode(cases, else_case) ==
    [type |-> "IfNode", cases |-> cases, else_case |-> else_case]
WhileNode(condition_node, body_node) ==
    [type |-> "WhileNode", condition_node |-> condition_node,
     body_node |-> body_node]
ForNode(var_name, list_node, body_node) ==
    [type |-> "ForNode", var_name |-> var_name, list_node |-> list_node,
     body_node |-> body_node]
FuncDefNode(func_name, arg_names, body_node) ==
    [type |-> "FuncDefNode", func_name |-> func_name, arg_names |-> arg_names,
     body_node |-> body_node]
ReturnNode(node_to_return) ==
    [type |-> "ReturnNode", node_to_return |-> node_to_return]
ListAppendNode(list_name, value_node) ==
    [type |-> "ListAppendNode", list_name |-> list_name, value_node |-> value_node]
ListRemoveNode(list_name, index_node) ==
    [type |-> "ListRemoveNode", list_name |-> list_name, index_node |-> index_node]
ImportNode(module_name) == [type |-> "ImportNode", module_name |-> module_name]

(***************************************************************************)
(* State.                                                                  *)
(***************************************************************************)
VARIABLES
    symbol_table,   \* Interpreter.symbol_table: name -> value (a dict)
    heap,           \* the list objects: heap[ref] is the content of list ref
    stack,          \* the visit activations, innermost last
    result,         \* the value the last finished visit returned to its caller
    status,         \* "running", "done" (run returned), "error" (run raised)
    error,          \* which RuntimeError run raised
    nstmts,         \* top-level statements visit_ProgramNode has started
    last,           \* what the last step did (observation only)
    declared,       \* how often visit_VarDeclareNode bound each name
                    \* (observation only)
    lexer,          \* the Lexer: text, pos, the tokens made so far
    parser          \* the Parser: tokens, token_idx, what parse gave

vars == <<symbol_table, heap, stack, result, status, error, nstmts, last,
          declared, lexer, parser>>

\* the interpreter does not touch the Lexer and the Parser
frontend == <<lexer, parser>>

\* no Lexer and no Parser are at work: run was given a ProgramNode
NoLexer == [state |-> "none"]
NoParser == [state |-> "none"]

\* dict helpers
Has(d, k) == k \in DOMAIN d
\* dict.get(k): None when the key is missing
Get(d, k) == IF k \in DOMAIN d THEN d[k] ELSE PyNone
\* d[k] = v
Put(d, k, v) == [n \in DOMAIN d \cup {k} |-> IF n = k THEN v ELSE d[n]]
\* del d[k]
Del(d, k) == [n \in DOMAIN d \ {k} |-> d[n]]
EmptyDict == [n \in {} |-> PyNone]
\* a counter per name
Count(c, k) == IF k \in DOMAIN c THEN c[k] ELSE 0

Top == stack[Len(stack)]
NoEvent == [ev |-> "none"]

(***************************************************************************)
(* Control transfer between visit activations.                             *)
(***************************************************************************)
\* a fresh activation of self.visit(node)
Frame(node) == [node |-> node, pc |-> "start"]

\* the running method is at pc `at` of a visit_<type> activation
At(type, at) ==
    /\ status = "running"
    /\ stack # <<>>
    /\ Top.node.type = type
    /\ Top.pc = at

\* the running method calls self.visit(child) and will go on as frame `next`
Visits(next, child) ==
    /\ stack' = Append([stack EXCEPT ![Len(stack)] = next], Frame(child))
    /\ UNCHANGED <<result, status, error, frontend>>

\* the running method goes on as frame `next` without calling anything
Continues(next) ==
    /\ stack' = [stack EXCEPT ![Len(stack)] = next]
    /\ UNCHANGED <<result, status, error, frontend>>

\* the running method returns `value` to the method that called it
Returns(value) ==
    /\ stack' = SubSeq(stack, 1, Len(stack) - 1)
    /\ result' = value
    /\ UNCHANGED <<status, error, frontend>>

\* raise RuntimeError(msg): no visit method catches it, run re-raises it
RaisesRuntimeError(msg) ==
    /\ stack' = <<>>
    /\ status' = "error"
    /\ error' = msg
    /\ UNCHANGED <<result, frontend>>

\* any other Python exception, were run to lack lines 70-72: it leaves run
\* as it is
RaisesPythonError_Unwrapped ==
    /\ stack' = <<>>
    /\ status' = "error"
    /\ error' = "Exception"
    /\ UNCHANGED <<result, frontend>>

\* any other Python exception (KeyError, TypeError): run wraps it
RaisesPythonError == RaisesRuntimeError("Erro interno do Moji")

\* the innermost visit_FuncCallNode activation that is inside its try block
\* (0 when there is none)
Catcher ==
    LET inTry == {i \in 1..Len(stack) :
                    /\ stack[i].node.type = "FuncCallNode"
                    /\ stack[i].pc = "body"}
    IN IF inTry = {} THEN 0 ELSE CHOOSE i \in inTry : \A j \in inTry : j <= i

\* raise ReturnSignal(value): caught by the innermost try of a
\* visit_FuncCallNode, else by run, which turns it into a RuntimeError
RaisesReturnSignal(value) ==
    IF Catcher = 0
    THEN RaisesRuntimeError("Return fora de uma funcao")
    ELSE /\ stack' = [SubSeq(stack, 1, Catcher) EXCEPT
                         ![Catcher].return_value = value,
                         ![Catcher].pc = "cleanup"]
         /\ UNCHANGED <<result, status, error, frontend>>

(***************************************************************************)
(* Observation: `last` records what the step just taken did, with the      *)
(* symbol table and the heap as they were before the step.                 *)
(***************************************************************************)
Event(ev, node, info) ==
    [ev |-> ev, node |-> node, info |-> info, table |-> symbol_table,
     lists |-> heap, depth |-> Len(stack)]
NoInfo == <<>>

(***************************************************************************)
(* Leaf nodes.                                                             *)
(***************************************************************************)
\* visit_NumberNode
visit_NumberNode ==
    /\ At("NumberNode", "start")
    /\ Returns(Top.node.value)
    /\ last' = NoEvent
    /\ UNCHANGED <<symbol_table, heap, nstmts, declared>>

\* visit_VarAccessNode, were it to hand out a copy of a list
visit_VarAccessNode_Copy ==
    /\ At("VarAccessNode", "start")
    /\ LET value == Get(symbol_table, Top.node.var_name)
       IN IF value = PyNone
          THEN /\ RaisesRuntimeError("Variavel nao foi definida")
               /\ last' = Event("raise", Top.node, NoInfo)
               /\ UNCHANGED heap
          ELSE IF value.t = "list"
          THEN /\ heap' = Append(heap, heap[value.v])
               /\ Returns(PyList(Len(heap) + 1))
               /\ last' = Event("read", Top.node, NoInfo)
          ELSE /\ Returns(value)
               /\ last' = Event("read", Top.node, NoInfo)
               /\ UNCHANGED heap
    /\ UNCHANGED <<symbol_table, nstmts, declared>>

\* visit_VarAccessNode, were it to test whether the name is in the symbol
\* table instead of whether its value is None
visit_VarAccessNode_TestsPresence ==
    /\ At("VarAccessNode", "start")
    /\ LET var_name == Top.node.var_name
       IN IF ~Has(symbol_table, var_name)
          THEN /\ RaisesRuntimeError("Variavel nao foi definida")
               /\ last' = Event("raise", Top.node, NoInfo)
          ELSE /\ Returns(symbol_table[var_name])
               /\ last' = Event("read", Top.node, NoInfo)
    /\ UNCHANGED <<symbol_table, heap, nstmts, declared>>

\* visit_VarAccessNode: the value bound to the name, the same object for a
\* list; a missing name and a name bound to None both raise
visit_VarAccessNode ==
    /\ At("VarAccessNode", "start")
    /\ LET var_name == Top.node.var_name
           value == Get(symbol_table, var_name)
       IN IF value = PyNone
          THEN /\ RaisesRuntimeError("Variavel nao foi definida")
               /\ last' = Event("raise", Top.node, NoInfo)
          ELSE /\ Returns(value)
               /\ last' = Event("read", Top.node, NoInfo)
    /\ UNCHANGED <<symbol_table, heap, nstmts, declared>>

(***************************************************************************)
(* Binary operations.  BinOpValue is visit_BinOpNode after both operands   *)
(* were visited, on the Python operators of the operand types.  A float is *)
(* the exact fraction (no rounding, no overflow, no negative zero); the    *)
(* ordering of two str values is outside the model.                        *)
(***************************************************************************)
Numeric(x) == x.t \in {"int", "bool", "float"}
\* a number as the fraction <<numerator, denominator>>
Frac(x) == IF x.t = "float" THEN x.v ELSE <<x.v, 1>>
Abs(n) == IF n < 0 THEN -n ELSE n

RECURSIVE GCD(_, _)
GCD(a, b) == IF b = 0 THEN a ELSE GCD(b, a % b)

\* the float num/den, den # 0, in lowest terms with a positive denominator
Float(num, den) ==
    LET g == GCD(Abs(num), Abs(den))
        sign == IF den < 0 THEN -1 ELSE 1
    IN PyFloat((sign * num) \div g, (sign * den) \div g)

\* not values: the other ways BinOpValue ends
RaisedRuntimeError(message) == [t |-> "RuntimeError", v |-> message]
\* a list object the operator creates; visit_BinOpNode_op gives it its place
NewList(items) == [t |-> "new list", v |-> items]
NotModelled == [t |-> "not modelled", v |-> 0]

\* str(n) of an int
Digit(d) == <<"0", "1", "2", "3", "4", "5", "6", "7", "8", "9">>[d + 1]

RECURSIVE NatStr(_)
NatStr(n) == IF n < 10 THEN Digit(n) ELSE NatStr(n \div 10) \o Digit(n % 10)

IntStr(n) == IF n < 0 THEN "-" \o NatStr(-n) ELSE NatStr(n)

\* the digits after the point, by long division, at most k of them
RECURSIVE FracDigits(_, _, _)
FracDigits(rem, den, k) ==
    IF rem = 0 \/ k = 0 THEN ""
    ELSE Digit((rem * 10) \div den) \o FracDigits((rem * 10) % den, den, k - 1)

\* most digits str() of a float shows after the point
FloatDigits == 16

\* str(x) of a float below 1e16 whose expansion ends within FloatDigits
FloatStr(num, den) ==
    LET whole == Abs(num) \div den
        rem == Abs(num) % den
    IN (IF num < 0 THEN "-" ELSE "") \o NatStr(whole) \o "."
         \o (IF rem = 0 THEN "0" ELSE FracDigits(rem, den, FloatDigits))

\* ', '.join of the repr of the tokens of arg_name_tokens, from the i-th
RECURSIVE TokensRepr(_, _)
TokensRepr(arg_names, i) ==
    IF i > Len(arg_names) THEN ""
    ELSE (IF i > 1 THEN ", " ELSE "")
           \o "Token(IDENTIFIER:" \o arg_names[i] \o ")"
           \o TokensRepr(arg_names, i + 1)

\* str(x), or repr(x) when quoted (the elements of a list are shown by repr)
RECURSIVE StrOf(_, _, _)
RECURSIVE ItemsRepr(_, _, _)
StrOf(x, h, quoted) ==
    CASE x.t = "str" -> IF quoted THEN "'" \o x.v \o "'" ELSE x.v
      [] x.t = "int" -> IntStr(x.v)
      [] x.t = "bool" -> IF x.v = 1 THEN "True" ELSE "False"
      [] x.t = "NoneType" -> "None"
      [] x.t = "float" -> FloatStr(x.v[1], x.v[2])
      [] x.t = "list" -> "[" \o ItemsRepr(h[x.v], h, 1) \o "]"
      [] x.t = "FuncDefNode" ->
            "FuncDef(" \o x.v.func_name \o " args: ["
              \o TokensRepr(x.v.arg_names, 1) \o "])"

ItemsRepr(items, h, i) ==
    IF i > Len(items) THEN ""
    ELSE (IF i > 1 THEN ", " ELSE "") \o StrOf(items[i], h, TRUE)
           \o ItemsRepr(items, h, i + 1)

\* x == y
RECURSIVE PyEq(_, _, _)
PyEq(x, y, h) ==
    IF Numeric(x) /\ Numeric(y)
    THEN Frac(x)[1] * Frac(y)[2] = Frac(y)[1] * Frac(x)[2]
    ELSE IF x.t = "list" /\ y.t = "list"
    THEN /\ Len(h[x.v]) = Len(h[y.v])
         /\ \A i \in 1..Len(h[x.v]) : PyEq(h[x.v][i], h[y.v][i], h)
    ELSE x = y

\* x < y: a bool, TypeError or NotModelled
RECURSIVE PyLess(_, _, _)
PyLess(x, y, h) ==
    IF Numeric(x) /\ Numeric(y)
    THEN PyBool(Frac(x)[1] * Frac(y)[2] < Frac(y)[1] * Frac(x)[2])
    ELSE IF x.t = "str" /\ y.t = "str" THEN NotModelled
    ELSE IF x.t = "list" /\ y.t = "list"
    THEN LET a == h[x.v]
             b == h[y.v]
             differ == {i \in 1..Len(a) : i <= Len(b) /\ ~PyEq(a[i], b[i], h)}
         IN IF differ = {} THEN PyBool(Len(a) < Len(b))
            ELSE LET i == CHOOSE j \in differ : \A k \in differ : j <= k
                 IN PyLess(a[i], b[i], h)
    ELSE TypeError

\* s * n of a str
RECURSIVE StrTimes(_, _)
StrTimes(s, n) == IF n <= 0 THEN "" ELSE s \o StrTimes(s, n - 1)

\* items * n of a list
RECURSIVE ListTimes(_, _)
ListTimes(items, n) == IF n <= 0 THEN <<>> ELSE items \o ListTimes(items, n - 1)

\* left_val <op> right_val of two numbers, for + - *
Arithmetic(op, left_val, right_val) ==
    LET a == Frac(left_val)
        b == Frac(right_val)
        num == CASE op = "OP_PLUS" -> a[1] * b[2] + b[1] * a[2]
                 [] op = "OP_MINUS" -> a[1] * b[2] - b[1] * a[2]
                 [] op = "OP_MUL" -> a[1] * b[1]
    IN IF left_val.t = "float" \/ right_val.t = "float"
       THEN Float(num, a[2] * b[2])
       ELSE PyInt(num)

\* the TT_OP_PLUS branch: str(left) + str(right) when either is a str, else
\* Python's left + right
Addition(left_val, right_val, h) ==
    IF left_val.t = "str" \/ right_val.t = "str"
    THEN PyStr(StrOf(left_val, h, FALSE) \o StrOf(right_val, h, FALSE))
    ELSE IF Numeric(left_val) /\ Numeric(right_val)
    THEN Arithmetic("OP_PLUS", left_val, right_val)
    ELSE IF left_val.t = "list" /\ right_val.t = "list"
    THEN NewList(h[left_val.v] \o h[right_val.v])
    ELSE TypeError

\* the TT_OP_DIV branch, were it Python's floor division
Division_Floor(left_val, right_val, h) ==
    IF PyEq(right_val, PyInt(0), h)
    THEN RaisedRuntimeError("Divisao por zero")
    ELSE IF Numeric(left_val) /\ Numeric(right_val)
    THEN PyInt((Frac(left_val)[1] * Frac(right_val)[2])
                 \div (Frac(left_val)[2] * Frac(right_val)[1]))
    ELSE TypeError

\* the TT_OP_DIV branch: the test `right_val == 0`, then left_val / right_val
Division(left_val, right_val, h) ==
    IF PyEq(right_val, PyInt(0), h)
    THEN RaisedRuntimeError("Divisao por zero")
    ELSE IF Numeric(left_val) /\ Numeric(right_val)
    THEN Float(Frac(left_val)[1] * Frac(right_val)[2],
               Frac(left_val)[2] * Frac(right_val)[1])
    ELSE TypeError

\* the outcome of left_val <op> right_val: a value, a NewList, TypeError or
\* a RaisedRuntimeError
BinOpValue(op, left_val, right_val, h) ==
    CASE op = "OP_PLUS" -> Addition(left_val, right_val, h)
      [] op = "OP_MINUS" ->
            IF Numeric(left_val) /\ Numeric(right_val)
            THEN Arithmetic(op, left_val, right_val)
            ELSE TypeError
      [] op = "OP_MUL" ->
            IF Numeric(left_val) /\ Numeric(right_val)
            THEN Arithmetic(op, left_val, right_val)
            ELSE IF left_val.t = "str" /\ IsInt(right_val)
            THEN PyStr(StrTimes(left_val.v, right_val.v))
            ELSE IF IsInt(left_val) /\ right_val.t = "str"
            THEN PyStr(StrTimes(right_val.v, left_val.v))
            ELSE IF left_val.t = "list" /\ IsInt(right_val)
            THEN NewList(ListTimes(h[left_val.v], right_val.v))
            ELSE IF IsInt(left_val) /\ right_val.t = "list"
            THEN NewList(ListTimes(h[right_val.v], left_val.v))
            ELSE TypeError
      [] op = "OP_DIV" -> Division(left_val, right_val, h)
      [] op = "COMP_EQ" -> PyBool(PyEq(left_val, right_val, h))
      [] op = "COMP_GT" -> PyLess(right_val, left_val, h)
      [] op = "COMP_LT" -> PyLess(left_val, right_val, h)
      [] op = "LOGIC_AND" -> PyBool(Truthy(left_val, h) /\ Truthy(right_val, h))
      [] op = "LOGIC_OR" -> PyBool(Truthy(left_val, h) \/ Truthy(right_val, h))
      [] OTHER -> RaisedRuntimeError("Operador binario desconhecido")

visit_BinOpNode_left ==
    /\ At("BinOpNode", "start")
    /\ Visits([Top EXCEPT !.pc = "left"], Top.node.left_node)
    /\ last' = NoEvent
    /\ UNCHANGED <<symbol_table, heap, nstmts, declared>>

visit_BinOpNode_right ==
    /\ At("BinOpNode", "left")
    /\ Visits([left_val |-> result] @@ [Top EXCEPT !.pc = "right"],
              Top.node.right_node)
    /\ last' = NoEvent
    /\ UNCHANGED <<symbol_table, heap, nstmts, declared>>

visit_BinOpNode_op ==
    /\ At("BinOpNode", "right")
    /\ LET value == BinOpValue(Top.node.op, Top.left_val, result, heap)
       IN /\ value # NotModelled
          /\ CASE value = TypeError ->
                     /\ RaisesPythonError
                     /\ last' = Event("raise", Top.node, NoInfo)
                     /\ UNCHANGED heap
               [] value.t = "RuntimeError" ->
                     /\ RaisesRuntimeError(value.v)
                     /\ last' = Event("raise", Top.node, NoInfo)
                     /\ UNCHANGED heap
               [] value.t = "new list" ->
                     /\ heap' = Append(heap, value.v)
                     /\ Returns(PyList(Len(heap) + 1))
                     /\ last' = NoEvent
               [] OTHER ->
                     /\ Returns(value)
                     /\ last' = NoEvent
                     /\ UNCHANGED heap
    /\ UNCHANGED <<symbol_table, nstmts, declared>>

visit_BinOpNode ==
    \/ visit_BinOpNode_left
    \/ visit_BinOpNode_right
    \/ visit_BinOpNode_op

(***************************************************************************)
(* Blocks.                                                                 *)
(***************************************************************************)
\* visit_BlockNode: `for statement in node.statements: self.visit(statement)`
visit_BlockNode ==
    /\ status = "running" /\ stack # <<>>
    /\ Top.node.type = "BlockNode"
    /\ LET i == IF Top.pc = "start" THEN 1 ELSE Top.i + 1
       IN IF i <= Len(Top.node.statements)
          THEN Visits([node |-> Top.node, pc |-> "loop", i |-> i],
                      Top.node.statements[i])
          ELSE Returns(PyNone)
    /\ last' = NoEvent
    /\ UNCHANGED <<symbol_table, heap, nstmts, declared>>

(***************************************************************************)
(* Variables.                                                              *)
(***************************************************************************)
\* the value of a declaration without initializer
DefaultValue(var_type) ==
    CASE var_type = "KEYWORD_INT" -> PyInt(0)
      [] var_type = "KEYWORD_REAL" -> PyFloat(0, 1)
      [] var_type = "KEYWORD_STRING" -> PyStr("")
      [] var_type = "KEYWORD_LIST" -> PyList(Len(heap) + 1)
      [] OTHER -> PyNone

\* visit_VarDeclareNode up to the evaluation of the initializer
visit_VarDeclareNode_start ==
    /\ At("VarDeclareNode", "start")
    /\ LET node == Top.node
           var_name == node.var_name
       IN IF Has(symbol_table, var_name) THEN
              /\ RaisesRuntimeError("Variavel ja foi declarada")
              /\ last' = Event("raise", node, NoInfo)
              /\ UNCHANGED <<symbol_table, heap, declared>>
          ELSE IF node.value_node # NoNode THEN
              /\ Visits([Top EXCEPT !.pc = "value"], node.value_node)
              /\ last' = NoEvent
              /\ UNCHANGED <<symbol_table, heap, declared>>
          ELSE
              /\ symbol_table' = Put(symbol_table, var_name,
                                     DefaultValue(node.var_type))
              /\ heap' = IF node.var_type = "KEYWORD_LIST"
                         THEN Append(heap, <<>>) ELSE heap
              /\ Returns(PyNone)
              /\ last' = Event("declare", node, NoInfo)
              /\ declared' = Put(declared, var_name, Count(declared, var_name) + 1)
    /\ UNCHANGED nstmts

\* visit_VarDeclareNode after the initializer: symbol_table[var_name] = value
visit_VarDeclareNode_value ==
    /\ At("VarDeclareNode", "value")
    /\ symbol_table' = Put(symbol_table, Top.node.var_name, result)
    /\ Returns(PyNone)
    /\ last' = Event("declare", Top.node, NoInfo)
    /\ declared' = Put(declared, Top.node.var_name,
                       Count(declared, Top.node.var_name) + 1)
    /\ UNCHANGED <<heap, nstmts>>

visit_VarDeclareNode ==
    \/ visit_VarDeclareNode_start
    \/ visit_VarDeclareNode_value

\* visit_VarAssignNode, were it to lack the check of line 230
visit_VarAssignNode_start_NoCheck ==
    /\ At("VarAssignNode", "start")
    /\ Visits([Top EXCEPT !.pc = "value"], Top.node.value_node)
    /\ last' = NoEvent
    /\ UNCHANGED <<symbol_table, heap, nstmts, declared>>

\* visit_VarAssignNode up to the evaluation of the value
visit_VarAssignNode_start ==
    /\ At("VarAssignNode", "start")
    /\ IF ~Has(symbol_table, Top.node.var_name)
       THEN /\ RaisesRuntimeError("Variavel nao declarada")
            /\ last' = Event("raise", Top.node, NoInfo)
       ELSE /\ Visits([Top EXCEPT !.pc = "value"], Top.node.value_node)
            /\ last' = NoEvent
    /\ UNCHANGED <<symbol_table, heap, nstmts, declared>>

\* visit_VarAssignNode after the value: symbol_table[var_name] = value
visit_VarAssignNode_value ==
    /\ At("VarAssignNode", "value")
    /\ symbol_table' = Put(symbol_table, Top.node.var_name, result)
    /\ Returns(PyNone)
    /\ last' = Event("assign", Top.node, NoInfo)
    /\ UNCHANGED <<heap, nstmts, declared>>

visit_VarAssignNode ==
    \/ visit_VarAssignNode_start
    \/ visit_VarAssignNode_value

(***************************************************************************)
(* If.  The frame keeps (observation only) the truth values of the         *)
(* conditions evaluated so far and the blocks run so far: `conds`, and     *)
(* `blocks`, where block i is the one of cases[i] and block 0 the          *)
(* else-block.                                                             *)
(***************************************************************************)
\* what visit_IfNode tells of itself when it returns
IfEnd(node, conds, blocks) ==
    Event("if_end", node, [conds |-> conds, blocks |-> blocks])

\* visit_IfNode: the next condition of the chain, after none or after a
\* falsy one; past the last one, the else block if there is one
visit_IfNode_case ==
    /\ status = "running" /\ stack # <<>>
    /\ Top.node.type = "IfNode"
    /\ \/ Top.pc = "start"
       \/ Top.pc = "cond" /\ ~Truthy(result, heap)
    /\ LET node == Top.node
           i == IF Top.pc = "start" THEN 1 ELSE Top.i + 1
           conds == IF Top.pc = "start" THEN <<>> ELSE Append(Top.conds, FALSE)
       IN IF i <= Len(node.cases)
          THEN /\ Visits([node |-> node, pc |-> "cond", i |-> i,
                          conds |-> conds, blocks |-> <<>>], node.cases[i][1])
               /\ last' = NoEvent
          ELSE IF node.else_case # NoNode
          THEN /\ Visits([node |-> node, pc |-> "block", i |-> i,
                          conds |-> conds, blocks |-> <<0>>], node.else_case)
               /\ last' = NoEvent
          ELSE /\ Returns(PyNone)
               /\ last' = IfEnd(node, conds, <<>>)
    /\ UNCHANGED <<symbol_table, heap, nstmts, declared>>

\* visit_IfNode: the block of a truthy condition
visit_IfNode_body ==
    /\ At("IfNode", "cond")
    /\ Truthy(result, heap)
    /\ Visits([Top EXCEPT !.pc = "block", !.conds = Append(@, TRUE),
                          !.blocks = Append(@, Top.i)],
              Top.node.cases[Top.i][2])
    /\ last' = NoEvent
    /\ UNCHANGED <<symbol_table, heap, nstmts, declared>>

\* the end of a block, were the `return` of line 272 missing: the chain
\* goes on behind the block of a truthy condition
visit_IfNode_end_NoReturn ==
    /\ At("IfNode", "block")
    /\ LET node == Top.node
           i == Top.i + 1
       IN IF Top.i > Len(node.cases)
          THEN /\ Returns(PyNone)
               /\ last' = IfEnd(node, Top.conds, Top.blocks)
          ELSE IF i <= Len(node.cases)
          THEN /\ Visits([Top EXCEPT !.pc = "cond", !.i = i], node.cases[i][1])
               /\ last' = NoEvent
          ELSE IF node.else_case # NoNode
          THEN /\ Visits([Top EXCEPT !.i = i, !.blocks = Append(@, 0)],
                         node.else_case)
               /\ last' = NoEvent
          ELSE /\ Returns(PyNone)
               /\ last' = IfEnd(node, Top.conds, Top.blocks)
    /\ UNCHANGED <<symbol_table, heap, nstmts, declared>>

\* visit_IfNode: after the one block that ran
visit_IfNode_end ==
    /\ At("IfNode", "block")
    /\ Returns(PyNone)
    /\ last' = IfEnd(Top.node, Top.conds, Top.blocks)
    /\ UNCHANGED <<symbol_table, heap, nstmts, declared>>

visit_IfNode ==
    \/ visit_IfNode_case
    \/ visit_IfNode_body
    \/ visit_IfNode_end

(***************************************************************************)
(* While.  The frame counts (observation only) the truthy values of the    *)
(* condition and the runs of the body that came to their end; `entry` is   *)
(* the symbol table the loop started with.                                 *)
(***************************************************************************)
\* the loop, were it to stop after the first run of the body
visit_WhileNode_cond_Once ==
    /\ status = "running" /\ stack # <<>>
    /\ Top.node.type = "WhileNode"
    /\ Top.pc \in {"start", "body"}
    /\ IF Top.pc = "start"
       THEN Visits([node |-> Top.node, pc |-> "cond", truthy |-> 0, runs |-> 0,
                    entry |-> symbol_table], Top.node.condition_node)
       ELSE Returns(PyNone)
    /\ last' = NoEvent
    /\ UNCHANGED <<symbol_table, heap, nstmts, declared>>

\* `while self.visit(node.condition_node)`: the condition is visited when
\* the loop is entered and after every run of the body
visit_WhileNode_cond ==
    /\ status = "running" /\ stack # <<>>
    /\ Top.node.type = "WhileNode"
    /\ Top.pc \in {"start", "body"}
    /\ IF Top.pc = "start"
       THEN Visits([node |-> Top.node, pc |-> "cond", truthy |-> 0, runs |-> 0,
                    entry |-> symbol_table], Top.node.condition_node)
       ELSE Visits([Top EXCEPT !.pc = "cond", !.runs = @ + 1],
                   Top.node.condition_node)
    /\ last' = NoEvent
    /\ UNCHANGED <<symbol_table, heap, nstmts, declared>>

\* the test of the value of the condition: the body, or the end of the loop
visit_WhileNode_test ==
    /\ At("WhileNode", "cond")
    /\ IF Truthy(result, heap)
       THEN /\ Visits([Top EXCEPT !.pc = "body", !.truthy = @ + 1],
                      Top.node.body_node)
            /\ last' = NoEvent
       ELSE /\ Returns(PyNone)
            /\ last' = Event("while_end", Top.node,
                             [entry |-> Top.entry, truthy |-> Top.truthy,
                              runs |-> Top.runs])
    /\ UNCHANGED <<symbol_table, heap, nstmts, declared>>

visit_WhileNode ==
    \/ visit_WhileNode_cond
    \/ visit_WhileNode_test

(***************************************************************************)
(* For each.                                                               *)
(***************************************************************************)
visit_ForNode_start ==
    /\ At("ForNode", "start")
    /\ Visits([Top EXCEPT !.pc = "list"], Top.node.list_node)
    /\ last' = NoEvent
    /\ UNCHANGED <<symbol_table, heap, nstmts, declared>>

\* visit_ForNode from the list check to the creation of the list iterator;
\* `it` counts the items the iterator has handed out, `entry` and `lists`
\* (observation only) are the symbol table and the list objects the loop
\* started with
visit_ForNode_list ==
    /\ At("ForNode", "list")
    /\ IF result.t # "list"
       THEN /\ RaisesRuntimeError("Nao e possivel iterar")
            /\ last' = Event("raise", Top.node, NoInfo)
       ELSE /\ Continues([node |-> Top.node, pc |-> "loop", list_val |-> result,
                          old_value |-> Get(symbol_table, Top.node.var_name),
                          it |-> 0, entry |-> symbol_table, lists |-> heap])
            /\ last' = NoEvent
    /\ UNCHANGED <<symbol_table, heap, nstmts, declared>>

\* the symbol table after the loop: lines 301-305
ForRestore(table, var_name, old_value) ==
    IF old_value # PyNone THEN Put(table, var_name, old_value)
    ELSE IF Has(table, var_name) THEN Del(table, var_name)
    ELSE table

\* visit_ForNode, were the loop to run over the items the list had when
\* the loop started
visit_ForNode_loop_Snapshot ==
    /\ At("ForNode", "loop")
    /\ LET node == Top.node
           items == Top.lists[Top.list_val.v]
       IN IF Top.it < Len(items)
          THEN /\ symbol_table' = Put(symbol_table, node.var_name, items[Top.it + 1])
               /\ Visits([Top EXCEPT !.it = @ + 1], node.body_node)
               /\ last' = Event("for_item", node,
                                [turn |-> Top.it + 1, list_val |-> Top.list_val])
          ELSE /\ symbol_table' = ForRestore(symbol_table, node.var_name, Top.old_value)
               /\ Returns(PyNone)
               /\ last' = Event("for_end", node, [entry |-> Top.entry,
                                                       turns |-> Top.it])
    /\ UNCHANGED <<heap, nstmts, declared>>

\* visit_ForNode: one turn of `for item in list_val`, over the list as it is
\* now, or the end of the loop
visit_ForNode_loop ==
    /\ At("ForNode", "loop")
    /\ LET node == Top.node
           items == heap[Top.list_val.v]
       IN IF Top.it < Len(items)
          THEN /\ symbol_table' = Put(symbol_table, node.var_name, items[Top.it + 1])
               /\ Visits([Top EXCEPT !.it = @ + 1], node.body_node)
               /\ last' = Event("for_item", node,
                                [turn |-> Top.it + 1, list_val |-> Top.list_val])
          ELSE /\ symbol_table' = ForRestore(symbol_table, node.var_name, Top.old_value)
               /\ Returns(PyNone)
               /\ last' = Event("for_end", node, [entry |-> Top.entry,
                                                       turns |-> Top.it])
    /\ UNCHANGED <<heap, nstmts, declared>>

visit_ForNode ==
    \/ visit_ForNode_start
    \/ visit_ForNode_list
    \/ visit_ForNode_loop

(***************************************************************************)
(* Lists.                                                                  *)
(***************************************************************************)
visit_ListAppendNode_start ==
    /\ At("ListAppendNode", "start")
    /\ LET list_obj == Get(symbol_table, Top.node.list_name)
       IN IF list_obj = PyNone
          THEN /\ RaisesRuntimeError("Variavel de lista nao encontrada")
               /\ last' = Event("raise", Top.node, NoInfo)
          ELSE IF list_obj.t # "list"
          THEN /\ RaisesRuntimeError("nao e uma lista")
               /\ last' = Event("raise", Top.node, NoInfo)
          ELSE /\ Visits([list_obj |-> list_obj] @@ [Top EXCEPT !.pc = "value"],
                         Top.node.value_node)
               /\ last' = NoEvent
    /\ UNCHANGED <<symbol_table, heap, nstmts, declared>>

\* the append, were it to build a new list and rebind the name to it
visit_ListAppendNode_value_Rebind ==
    /\ At("ListAppendNode", "value")
    /\ Len(heap[Top.list_obj.v]) < MaxLen
    /\ heap' = Append(heap, Append(heap[Top.list_obj.v], result))
    /\ symbol_table' = Put(symbol_table, Top.node.list_name, PyList(Len(heap) + 1))
    /\ Returns(PyNone)
    /\ last' = Event("append", Top.node, NoInfo)
    /\ UNCHANGED <<nstmts, declared>>

\* list_obj.append(value_to_append)
visit_ListAppendNode_value ==
    /\ At("ListAppendNode", "value")
    /\ Len(heap[Top.list_obj.v]) < MaxLen
    /\ heap' = [heap EXCEPT ![Top.list_obj.v] = Append(@, result)]
    /\ Returns(PyNone)
    /\ last' = Event("append", Top.node, NoInfo)
    /\ UNCHANGED <<symbol_table, nstmts, declared>>

visit_ListAppendNode ==
    \/ visit_ListAppendNode_start
    \/ visit_ListAppendNode_value

\* list.pop(index) on `items`: the list left, or IndexError.  Python counts a
\* negative index from the end of the list.
ListPop(items, index) ==
    LET n == Len(items)
        k == IF index < 0 THEN index + n ELSE index
    IN IF k < 0 \/ k >= n
       THEN [raised |-> "IndexError", items |-> items]
       ELSE [raised |-> "",
             items |-> SubSeq(items, 1, k) \o SubSeq(items, k + 2, n)]

visit_ListRemoveNode_start ==
    /\ At("ListRemoveNode", "start")
    /\ LET list_obj == Get(symbol_table, Top.node.list_name)
       IN IF list_obj.t # "list"
          THEN /\ RaisesRuntimeError("nao e uma lista")
               /\ last' = Event("raise", Top.node, NoInfo)
          ELSE /\ Visits([list_obj |-> list_obj] @@ [Top EXCEPT !.pc = "index"],
                         Top.node.index_node)
               /\ last' = NoEvent
    /\ UNCHANGED <<symbol_table, heap, nstmts, declared>>

visit_ListRemoveNode_index ==
    /\ At("ListRemoveNode", "index")
    /\ LET index_to_remove == result
           popped == ListPop(heap[Top.list_obj.v], index_to_remove.v)
       IN IF ~IsInt(index_to_remove)
          THEN /\ RaisesRuntimeError("Indice deve ser um inteiro")
               /\ last' = Event("raise", Top.node, NoInfo)
               /\ UNCHANGED heap
          ELSE IF popped.raised = "IndexError"
          THEN /\ RaisesRuntimeError("Indice fora do alcance")
               /\ last' = Event("raise", Top.node, [index |-> index_to_remove.v])
               /\ UNCHANGED heap
          ELSE /\ heap' = [heap EXCEPT ![Top.list_obj.v] = popped.items]
               /\ Returns(PyNone)
               /\ last' = Event("remove", Top.node, [index |-> index_to_remove.v])
    /\ UNCHANGED <<symbol_table, nstmts, declared>>

visit_ListRemoveNode ==
    \/ visit_ListRemoveNode_start
    \/ visit_ListRemoveNode_index

(***************************************************************************)
(* Functions.                                                              *)
(***************************************************************************)
\* visit_FuncDefNode, were it to lack the test of lines 312-313
visit_FuncDefNode_Overwrite ==
    /\ At("FuncDefNode", "start")
    /\ symbol_table' = Put(symbol_table, Top.node.func_name, PyFunc(Top.node))
    /\ Returns(PyNone)
    /\ last' = Event("define", Top.node, NoInfo)
    /\ UNCHANGED <<heap, nstmts, declared>>

\* visit_FuncDefNode: the node itself becomes the value of the name
visit_FuncDefNode ==
    /\ At("FuncDefNode", "start")
    /\ IF Has(symbol_table, Top.node.func_name)
       THEN /\ RaisesRuntimeError("Funcao ou variavel ja foi definida")
            /\ last' = Event("raise", Top.node, NoInfo)
            /\ UNCHANGED symbol_table
       ELSE /\ symbol_table' = Put(symbol_table, Top.node.func_name, PyFunc(Top.node))
            /\ Returns(PyNone)
            /\ last' = Event("define", Top.node, NoInfo)
    /\ UNCHANGED <<heap, nstmts, declared>>

Range(seq) == {seq[i] : i \in DOMAIN seq}

\* step 3 of visit_FuncCallNode: the bindings the parameter names have now
SaveVars(table, arg_names) ==
    [name \in {n \in Range(arg_names) : Has(table, n)} |-> table[name]]

\* step 4: `for name, value in zip(arg_names, arg_values)`, in order, so
\* that of two parameters with one name the later one wins
InjectArgs(table, arg_names, arg_values) ==
    [name \in DOMAIN table \cup Range(arg_names) |->
        IF name \in Range(arg_names)
        THEN LET at == {i \in DOMAIN arg_names : arg_names[i] = name}
             IN arg_values[CHOOSE i \in at : \A j \in at : j <= i]
        ELSE table[name]]

\* step 6: `for name in arg_names`, restore or delete; `del` of a name that
\* is not in the table raises KeyError and leaves the loop
RECURSIVE RestoreVars(_, _, _, _)
RestoreVars(table, arg_names, saved_vars, i) ==
    IF i > Len(arg_names) THEN [raised |-> "", table |-> table]
    ELSE LET name == arg_names[i]
         IN IF Has(saved_vars, name)
            THEN RestoreVars(Put(table, name, saved_vars[name]),
                             arg_names, saved_vars, i + 1)
            ELSE IF Has(table, name)
            THEN RestoreVars(Del(table, name), arg_names, saved_vars, i + 1)
            ELSE [raised |-> "KeyError", table |-> table]

\* step 6, were it to restore the saved names and delete none
CleanScope_NoDelete(table, arg_names, saved_vars) ==
    [raised |-> "",
     table |-> [name \in DOMAIN table |->
                   IF Has(saved_vars, name) THEN saved_vars[name]
                   ELSE table[name]]]

CleanScope(table, arg_names, saved_vars) ==
    RestoreVars(table, arg_names, saved_vars, 1)

\* visit_FuncCallNode, were it to lack the check of lines 329-332
visit_FuncCallNode_start_NoArity ==
    /\ At("FuncCallNode", "start")
    /\ LET node == Top.node
           func_def_node == Get(symbol_table, node.node_to_call.var_name)
           next == [node |-> node, pc |-> "arg", func_def_node |-> func_def_node.v,
                    arg_values |-> <<>>]
       IN IF func_def_node = PyNone
          THEN /\ RaisesRuntimeError("Funcao nao foi definida")
               /\ last' = Event("raise", node, NoInfo)
          ELSE IF func_def_node.t # "FuncDefNode"
          THEN /\ RaisesRuntimeError("nao e uma funcao")
               /\ last' = Event("raise", node, NoInfo)
          ELSE IF Len(node.arg_nodes) = 0
          THEN /\ Continues([next EXCEPT !.pc = "call"])
               /\ last' = NoEvent
          ELSE /\ Visits(next, node.arg_nodes[1])
               /\ last' = NoEvent
    /\ UNCHANGED <<symbol_table, heap, nstmts, declared>>

\* visit_FuncCallNode up to the evaluation of the first argument: the
\* look-up of the function and the count of the arguments (step 1)
visit_FuncCallNode_start ==
    /\ At("FuncCallNode", "start")
    /\ LET node == Top.node
           func_def_node == Get(symbol_table, node.node_to_call.var_name)
           expected_count == Len(func_def_node.v.arg_names)
           given_count == Len(node.arg_nodes)
           next == [node |-> node, pc |-> "arg", func_def_node |-> func_def_node.v,
                    arg_values |-> <<>>]
       IN IF func_def_node = PyNone
          THEN /\ RaisesRuntimeError("Funcao nao foi definida")
               /\ last' = Event("raise", node, NoInfo)
          ELSE IF func_def_node.t # "FuncDefNode"
          THEN /\ RaisesRuntimeError("nao e uma funcao")
               /\ last' = Event("raise", node, NoInfo)
          ELSE IF expected_count # given_count
          THEN /\ RaisesRuntimeError("numero de argumentos")
               /\ last' = Event("raise", node, [expected |-> expected_count,
                                                given |-> given_count])
          ELSE IF given_count = 0
          THEN /\ Continues([next EXCEPT !.pc = "call"])
               /\ last' = NoEvent
          ELSE /\ Visits(next, node.arg_nodes[1])
               /\ last' = NoEvent
    /\ UNCHANGED <<symbol_table, heap, nstmts, declared>>

\* step 2, were each parameter to be bound as soon as its argument is
\* evaluated
visit_FuncCallNode_arg_Binds ==
    /\ At("FuncCallNode", "arg")
    /\ LET arg_values == Append(Top.arg_values, result)
           next == [Top EXCEPT !.arg_values = arg_values]
       IN /\ symbol_table' = Put(symbol_table,
                                 Top.func_def_node.arg_names[Len(arg_values)],
                                 result)
          /\ IF Len(arg_values) < Len(Top.node.arg_nodes)
             THEN Visits(next, Top.node.arg_nodes[Len(arg_values) + 1])
             ELSE Continues([next EXCEPT !.pc = "call"])
    /\ last' = NoEvent
    /\ UNCHANGED <<heap, nstmts, declared>>

\* step 2: `[self.visit(arg_node) for arg_node in node.arg_nodes]`
visit_FuncCallNode_arg ==
    /\ At("FuncCallNode", "arg")
    /\ LET arg_values == Append(Top.arg_values, result)
           next == [Top EXCEPT !.arg_values = arg_values]
       IN IF Len(arg_values) < Len(Top.node.arg_nodes)
          THEN Visits(next, Top.node.arg_nodes[Len(arg_values) + 1])
          ELSE Continues([next EXCEPT !.pc = "call"])
    /\ last' = NoEvent
    /\ UNCHANGED <<symbol_table, heap, nstmts, declared>>

\* steps 3 to 5: save, inject, enter the try block and visit the body;
\* `entry` (observation only) is the symbol table before step 3
visit_FuncCallNode_call ==
    /\ At("FuncCallNode", "call")
    /\ LET arg_names == Top.func_def_node.arg_names
       IN /\ symbol_table' = InjectArgs(symbol_table, arg_names, Top.arg_values)
          /\ Visits([node |-> Top.node, pc |-> "body",
                     func_def_node |-> Top.func_def_node,
                     arg_values |-> Top.arg_values,
                     arg_names |-> arg_names,
                     saved_vars |-> SaveVars(symbol_table, arg_names),
                     return_value |-> PyNone,
                     entry |-> symbol_table],
                    Top.func_def_node.body_node)
          /\ last' = Event("call", Top.node, [arg_values |-> Top.arg_values])
    /\ UNCHANGED <<heap, nstmts, declared>>

\* the end of the call, were the function to run in a scope of its own: the
\* whole symbol table of before the call comes back
visit_FuncCallNode_cleanup_Scoped ==
    /\ status = "running" /\ stack # <<>>
    /\ Top.node.type = "FuncCallNode"
    /\ Top.pc \in {"body", "cleanup"}
    /\ symbol_table' = Top.entry
    /\ Returns(Top.return_value)
    /\ last' = Event("call_return", Top.node,
                     [func_def_node |-> Top.func_def_node, entry |-> Top.entry,
                      return_value |-> Top.return_value])
    /\ UNCHANGED <<heap, nstmts, declared>>

\* step 6 and the return, after the body ended or a ReturnSignal was caught
visit_FuncCallNode_cleanup ==
    /\ status = "running" /\ stack # <<>>
    /\ Top.node.type = "FuncCallNode"
    /\ Top.pc \in {"body", "cleanup"}
    /\ LET cleaned == CleanScope(symbol_table, Top.arg_names, Top.saved_vars)
           info == [func_def_node |-> Top.func_def_node, entry |-> Top.entry,
                    return_value |-> Top.return_value]
       IN /\ symbol_table' = cleaned.table
          /\ IF cleaned.raised = "KeyError"
             THEN /\ RaisesPythonError
                  /\ last' = Event("raise", Top.node, info)
             ELSE /\ Returns(Top.return_value)
                  /\ last' = Event("call_return", Top.node, info)
    /\ UNCHANGED <<heap, nstmts, declared>>

visit_FuncCallNode ==
    \/ visit_FuncCallNode_start
    \/ visit_FuncCallNode_arg
    \/ visit_FuncCallNode_call
    \/ visit_FuncCallNode_cleanup

(***************************************************************************)
(* Import.  The module files are outside the program: what the read of     *)
(* <module_name>.moji and the run of its code in an interpreter of its own *)
(* come to is given by ModuleRun.                                          *)
(***************************************************************************)
\* lines 452-471: the exception raised on the way (FileNotFoundError or
\* OSError by the read, the lexer's Exception, SyntaxError, RuntimeError),
\* or the items of import_interpreter.symbol_table, in the order of the dict
ModuleRun(module_name) ==
    CASE module_name = "ma" ->
            [raised |-> "", items |-> << <<"g", PyInt(5)>>, <<"x", PyInt(7)>> >>]
      [] module_name = "bad" -> [raised |-> "SyntaxError", items |-> <<>>]
      [] OTHER -> [raised |-> "FileNotFoundError", items |-> <<>>]

\* the merge loop, were it to overwrite what the caller has
RECURSIVE MergeModule_Overwrite(_, _, _)
MergeModule_Overwrite(table, items, i) ==
    IF i > Len(items) THEN [raised |-> "", table |-> table]
    ELSE MergeModule_Overwrite(Put(table, items[i][1], items[i][2]), items, i + 1)

\* lines 474-478: `for key, value in import_interpreter.symbol_table.items()`,
\* from item i on; the first key the caller has ends the loop
RECURSIVE MergeModule(_, _, _)
MergeModule(table, items, i) ==
    IF i > Len(items) THEN [raised |-> "", table |-> table]
    ELSE IF Has(table, items[i][1])
    THEN [raised |-> "RuntimeError", table |-> table]
    ELSE MergeModule(Put(table, items[i][1], items[i][2]), items, i + 1)

visit_ImportNode ==
    /\ At("ImportNode", "start")
    /\ LET module == ModuleRun(Top.node.module_name)
           merged == MergeModule(symbol_table, module.items, 1)
       IN IF module.raised = "FileNotFoundError"
          THEN /\ RaisesRuntimeError("Arquivo de modulo nao encontrado")
               /\ last' = Event("raise", Top.node, NoInfo)
               /\ UNCHANGED symbol_table
          ELSE IF module.raised = "OSError"
          THEN /\ RaisesRuntimeError("Erro ao ler modulo")
               /\ last' = Event("raise", Top.node, NoInfo)
               /\ UNCHANGED symbol_table
          ELSE IF module.raised \in {"SyntaxError", "RuntimeError"}
          THEN /\ RaisesRuntimeError("Erro ao importar o modulo")
               /\ last' = Event("raise", Top.node, NoInfo)
               /\ UNCHANGED symbol_table
          ELSE IF module.raised # ""
          THEN /\ RaisesPythonError
               /\ last' = Event("raise", Top.node, NoInfo)
               /\ UNCHANGED symbol_table
          ELSE /\ symbol_table' = merged.table
               /\ IF merged.raised # ""
                  THEN /\ RaisesRuntimeError("Erro ao importar o modulo")
                       /\ last' = Event("raise", Top.node, [items |-> module.items])
                  ELSE /\ Returns(PyNone)
                       /\ last' = Event("import", Top.node, [items |-> module.items])
    /\ UNCHANGED <<heap, nstmts, declared>>

\* the visit_ForNode activations that a ReturnSignal raised now leaves on
\* its way to the try block that catches it (observation only): the loop
\* variable and the item of the turn that is running
LoopsLeft ==
    { [var_name |-> stack[k].node.var_name,
       item |-> heap[stack[k].list_val.v][stack[k].it],
       depth |-> k] :
        k \in { j \in (Catcher + 1)..Len(stack) :
                   /\ stack[j].node.type = "ForNode"
                   /\ stack[j].pc = "loop"
                   /\ stack[j].it \in 1..Len(heap[stack[j].list_val.v]) } }

\* lines 301-305 for every loop down to the activation at depth `low`, the
\* innermost loop first
RECURSIVE RestoreLoops(_, _, _)
RestoreLoops(table, k, low) ==
    IF k <= low THEN table
    ELSE IF stack[k].node.type = "ForNode" /\ stack[k].pc = "loop"
    THEN RestoreLoops(ForRestore(table, stack[k].node.var_name, stack[k].old_value),
                      k - 1, low)
    ELSE RestoreLoops(table, k - 1, low)

\* visit_ReturnNode, were every loop that the ReturnSignal leaves to restore
\* its variable on the way (a `finally` around the loop of visit_ForNode)
visit_ReturnNode_RestoresLoops ==
    /\ status = "running" /\ stack # <<>>
    /\ Top.node.type = "ReturnNode"
    /\ IF Top.pc = "start" /\ Top.node.node_to_return # NoNode
       THEN /\ Visits([Top EXCEPT !.pc = "value"], Top.node.node_to_return)
            /\ last' = NoEvent
            /\ UNCHANGED symbol_table
       ELSE LET value_to_return == IF Top.pc = "start" THEN PyNone ELSE result
            IN /\ RaisesReturnSignal(value_to_return)
               /\ last' = Event("return", Top.node,
                                [value |-> value_to_return, catcher |-> Catcher,
                                 loops |-> LoopsLeft])
               /\ symbol_table' = RestoreLoops(symbol_table, Len(stack), Catcher)
    /\ UNCHANGED <<heap, nstmts, declared>>

\* visit_ReturnNode: raise ReturnSignal(value_to_return)
visit_ReturnNode ==
    /\ status = "running" /\ stack # <<>>
    /\ Top.node.type = "ReturnNode"
    /\ IF Top.pc = "start" /\ Top.node.node_to_return # NoNode
       THEN /\ Visits([Top EXCEPT !.pc = "value"], Top.node.node_to_return)
            /\ last' = NoEvent
       ELSE LET value_to_return == IF Top.pc = "start" THEN PyNone ELSE result
            IN /\ RaisesReturnSignal(value_to_return)
               /\ last' = Event("return", Top.node,
                                [value |-> value_to_return, catcher |-> Catcher,
                                 loops |-> LoopsLeft])
    /\ UNCHANGED <<symbol_table, heap, nstmts, declared>>

(***************************************************************************)
(* The programs of the model.  A program is a sequence of at most MaxStmts *)
(* top-level statements, each one of Statements; the model draws the next  *)
(* statement when visit_ProgramNode reaches it.                            *)
(*                                                                         *)
(*   g p     { if p { x := call g (p - 1) }  return p }                    *)
(*   f p x   { if p { for x in l { return x } }  p := call g x }           *)
(*   h a a   { return a }                                                  *)
(*   k       { int z  for y in l { return y } }                            *)
(*   d       { n { } }                                                     *)
(***************************************************************************)
Num(n) == NumberNode(PyInt(n))
Var(name) == VarAccessNode(name)
If1(condition, statements) ==
    IfNode(<< <<condition, BlockNode(statements)>> >>, NoNode)

DefG ==
    FuncDefNode("g", <<"p">>, BlockNode(<<
        If1(Var("p"), <<VarAssignNode("x",
            FuncCallNode("g", <<BinOpNode(Var("p"), "OP_MINUS", Num(1))>>))>>),
        ReturnNode(Var("p")) >>))
DefF ==
    FuncDefNode("f", <<"p", "x">>, BlockNode(<<
        If1(Var("p"), <<ForNode("x", Var("l"),
                                BlockNode(<<ReturnNode(Var("x"))>>))>>),
        VarAssignNode("p", FuncCallNode("g", <<Var("x")>>)) >>))
\* while p < 3 { p := p + 1 }
WhileP ==
    WhileNode(BinOpNode(Var("p"), "COMP_LT", Num(3)),
              BlockNode(<<VarAssignNode("p", BinOpNode(Var("p"), "OP_PLUS", Num(1)))>>))
\* if x < 2 { x := 2 } elif x == 2 { x := x + 1 } else { x := 1 }
IfChain ==
    IfNode(<< <<BinOpNode(Var("x"), "COMP_LT", Num(2)),
                BlockNode(<<VarAssignNode("x", Num(2))>>)>>,
              <<BinOpNode(Var("x"), "COMP_EQ", Num(2)),
                BlockNode(<<VarAssignNode("x",
                    BinOpNode(Var("x"), "OP_PLUS", Num(1)))>>)>> >>,
           BlockNode(<<VarAssignNode("x", Num(1))>>))
DefH ==
    FuncDefNode("h", <<"a", "a">>, BlockNode(<<ReturnNode(Var("a"))>>))
DefK ==
    FuncDefNode("k", <<>>, BlockNode(<<
        VarDeclareNode("KEYWORD_INT", "z", NoNode),
        ForNode("y", Var("l"), BlockNode(<<ReturnNode(Var("y"))>>)) >>))
\* for x in l { append x to l }
ForAppend ==
    ForNode("x", Var("l"), BlockNode(<<ListAppendNode("l", Var("x"))>>))
DefD ==
    FuncDefNode("d", <<>>, BlockNode(<<FuncDefNode("n", <<>>, BlockNode(<<>>))>>))

Statements ==
    {   \* a block defining the three functions
        BlockNode(<<DefG, DefF, DefH, DefK, DefD>>),
        VarDeclareNode("KEYWORD_INT", "x", Num(1)),
        VarDeclareNode("KEYWORD_INT", "p", NoNode),
        VarDeclareNode("KEYWORD_LIST", "l", NoNode),
        VarDeclareNode("KEYWORD_LIST", "m", Var("l")),
        VarAssignNode("x", Num(2)),
        VarAssignNode("x", FuncCallNode("f", <<Num(1)>>)),
        VarAssignNode("x", FuncCallNode("h", <<Num(1), Num(2)>>)),
        VarAssignNode("x", FuncCallNode("k", <<>>)),
        VarAssignNode("x", FuncCallNode("d", <<>>)),
        \* f is given x for p and p for x
        VarAssignNode("x", FuncCallNode("f", <<Var("x"), Var("p")>>)),
        ListAppendNode("l", Var("x")),
        ListAppendNode("m", Num(2)),
        ListRemoveNode("l", BinOpNode(Var("x"), "OP_MINUS", Num(2))),
        ForNode("x", Var("l"), BlockNode(<<If1(Var("x"), <<>>)>>)),
        ForAppend,
        ReturnNode(Var("x")),
        WhileP,
        VarAssignNode("p", BinOpNode(Var("l"), "OP_MINUS", Num(1))),
        IfChain,
        ImportNode("ma"),
        ImportNode("bad"),
        ImportNode("missing")
    } \cup
    { VarAssignNode("x", FuncCallNode("f", <<Num(a), Num(b)>>)) :
        a \in {0, 1}, b \in {0, 1} }

(***************************************************************************)
(* run and visit_ProgramNode.                                              *)
(***************************************************************************)
\* run has called self.visit(ast) on an interpreter just constructed
Init ==
    /\ symbol_table = EmptyDict
    /\ heap = <<>>
    /\ stack = <<Frame(ProgramNode)>>
    /\ result = PyNone
    /\ status = "running"
    /\ error = ""
    /\ nstmts = 0
    /\ last = NoEvent
    /\ declared = EmptyDict
    /\ lexer = NoLexer
    /\ parser = NoParser

\* visit_ProgramNode: `for statement in node.statements: self.visit(statement)`
visit_ProgramNode_statement ==
    /\ At("ProgramNode", "start")
    /\ nstmts < MaxStmts
    /\ \E statement \in Statements :
          /\ Visits(Top, statement)
          /\ last' = Event("statement", statement, NoInfo)
    /\ nstmts' = nstmts + 1
    /\ UNCHANGED <<symbol_table, heap, declared>>

\* the statements are exhausted: visit_ProgramNode and run return
visit_ProgramNode_end ==
    /\ At("ProgramNode", "start")
    /\ stack' = <<>>
    /\ status' = "done"
    /\ last' = NoEvent
    /\ UNCHANGED <<symbol_table, heap, result, error, nstmts, declared, frontend>>

visit_ProgramNode ==
    \/ visit_ProgramNode_statement
    \/ visit_ProgramNode_end

Next ==
    \/ visit_ProgramNode
    \/ visit_BlockNode
    \/ visit_NumberNode
    \/ visit_VarAccessNode
    \/ visit_BinOpNode
    \/ visit_VarDeclareNode
    \/ visit_VarAssignNode
    \/ visit_IfNode
    \/ visit_WhileNode
    \/ visit_ForNode
    \/ visit_FuncDefNode
    \/ visit_FuncCallNode
    \/ visit_ReturnNode
    \/ visit_ListAppendNode
    \/ visit_ListRemoveNode
    \/ visit_ImportNode

Spec == Init /\ [][Next]_vars

(***************************************************************************)
(* The binary operators on their own: one BinOpNode over two bound names,  *)
(* for every operator and every pair of operand values.                    *)
(***************************************************************************)
\* the list objects the operands may be
OperandHeap == << <<>>, <<PyInt(1)>>, <<PyInt(1), PyStr("a")>> >>

\* the values the name may be bound to
Operands(name) ==
    { PyNone, PyInt(-4), PyInt(0), PyInt(1), PyInt(2), PyInt(3), PyInt(5),
      PyBool(FALSE), PyBool(TRUE), PyFloat(0, 1), PyFloat(5, 2),
      PyFloat(-1, 2), PyStr(""), PyStr("a"), PyList(1), PyList(2), PyList(3),
      PyFunc(FuncDefNode(name, <<"p", "q">>, BlockNode(<<>>))) }

\* the token types a BinOpNode may carry; LOGIC_NOT is no binary operator
Operators ==
    { "OP_PLUS", "OP_MINUS", "OP_MUL", "OP_DIV", "COMP_EQ", "COMP_GT",
      "COMP_LT", "LOGIC_AND", "LOGIC_OR", "LOGIC_NOT" }

InitOps ==
    /\ \E left_val \in Operands("a"), right_val \in Operands("b") :
          /\ symbol_table = [a |-> left_val, b |-> right_val]
          /\ declared = [a |-> 1, b |-> 1]
    /\ heap = OperandHeap
    /\ \E op \in Operators :
          LET node == BinOpNode(Var("a"), op, Var("b"))
          IN /\ stack = <<Frame(ProgramNode), Frame(node)>>
             /\ last = Event("statement", node, NoInfo)
    /\ result = PyNone
    /\ status = "running"
    /\ error = ""
    /\ nstmts = 1
    /\ lexer = NoLexer
    /\ parser = NoParser

NextOps ==
    \/ visit_VarAccessNode
    \/ visit_BinOpNode

SpecOps == InitOps /\ [][NextOps]_vars

(***************************************************************************)
(* The Lexer (src/Moji/lexer.py).  A text is a sequence of code points: an *)
(* ASCII character stands for itself, any other code point has its U+      *)
(* name.  lexer.pos counts from 0 as self.pos does.                        *)
(***************************************************************************)
Token(type, value) == [type |-> type, value |-> value]

\* EMOJI_KEYWORDS of token.py: the keys are strings of one or two code points
EMOJI_KEYWORDS ==
    (<<"U+1F331">> :> "PROGRAM_START") @@ (<<"U+1F333">> :> "PROGRAM_END")
    @@ (<<"U+1F4E6">> :> "BLOCK_START")
    @@ (<<"U+1F4E6", "U+26D4">> :> "BLOCK_END")
    @@ (<<"U+1F522">> :> "KEYWORD_INT") @@ (<<"U+1F47D">> :> "KEYWORD_REAL")
    @@ (<<"U+1F4AC">> :> "KEYWORD_STRING") @@ (<<"U+1F440">> :> "KEYWORD_READ")
    @@ (<<"U+1F5A8", "U+FE0F">> :> "KEYWORD_PRINT")
    @@ (<<"U+2795">> :> "OP_PLUS") @@ (<<"U+2796">> :> "OP_MINUS")
    @@ (<<"U+2716", "U+FE0F">> :> "OP_MUL") @@ (<<"U+2797">> :> "OP_DIV")
    @@ (<<"U+1F449">> :> "ASSIGN") @@ (<<"U+1F4AD">> :> "COMMENT")
    @@ (<<"U+1F51A">> :> "END_STATEMENT") @@ (<<"U+1F914">> :> "KEYWORD_IF")
    @@ (<<"U+1F500">> :> "KEYWORD_ELIF") @@ (<<"U+1F928">> :> "KEYWORD_ELSE")
    @@ (<<"U+1F9E9">> :> "KEYWORD_FUN") @@ (<<"U+1F519">> :> "KEYWORD_RETURN")
    @@ (<<"U+1F4DE">> :> "KEYWORD_CALL") @@ (<<"U+23F3">> :> "KEYWORD_WHILE")
    @@ (<<"U+1F6B6">> :> "KEYWORD_FOR")
    @@ (<<"U+2696", "U+FE0F">> :> "COMP_EQ")
    @@ (<<"U+2B06", "U+FE0F">> :> "COMP_GT")
    @@ (<<"U+2B07", "U+FE0F">> :> "COMP_LT")
    @@ (<<"U+1F6AB">> :> "LOGIC_NOT") @@ (<<"U+1F91D">> :> "LOGIC_AND")
    @@ (<<"U+1F300">> :> "LOGIC_OR") @@ (<<"U+1F4DC">> :> "KEYWORD_LIST")
    @@ (<<"U+2795", "U+1F4DC">> :> "KEYWORD_APPEND")
    @@ (<<"U+2796", "U+1F4DC">> :> "KEYWORD_REMOVE")
    @@ (<<"U+1F3AF">> :> "KEYWORD_GET_AT")
    @@ (<<"U+2699", "U+FE0F">> :> "KEYWORD_IMPORT")
    @@ (<<"U+1F4BE">> :> "KEYWORD_SAVE")
    @@ (<<"U+23F1", "U+FE0F">> :> "KEYWORD_SLEEP")
    @@ (<<"U+1F4D6">> :> "KEYWORD_READ_FILE")
    @@ (<<"U+270D", "U+FE0F">> :> "KEYWORD_APPEND_FILE")

\* the character classes of the code points a text of the model may hold
Whitespace == {" ", "\t", "\n", "\r"}
Digits == {Digit(d) : d \in 0..9}
Letters == {"a", "b"}
isdigit(c) == c \in Digits
isalpha(c) == c \in Letters
isalnum(c) == isalpha(c) \/ isdigit(c)

\* self.current_char is None
NoChar == ""
\* the character at pos, as __init__ and advance set self.current_char
CharAt(text, pos) == IF pos < Len(text) THEN text[pos + 1] ELSE NoChar
current_char == CharAt(lexer.text, lexer.pos)
\* peek(): the character after the current one
peeked_char == CharAt(lexer.text, lexer.pos + 1)

\* int(num_str) of a string of digits, given as their sequence
RECURSIVE IntOf(_)
IntOf(digits) ==
    IF digits = <<>> THEN 0
    ELSE 10 * IntOf(SubSeq(digits, 1, Len(digits) - 1))
           + (CHOOSE d \in 0..9 : Digit(d) = digits[Len(digits)])

RECURSIVE Power10(_)
Power10(n) == IF n = 0 THEN 1 ELSE 10 * Power10(n - 1)

\* make_number from pos on: the token and the pos it stops at.  num_str is
\* kept as the digits before the point and the digits after it.
RECURSIVE make_number(_, _, _, _, _)
make_number(text, pos, whole, frac, dot_count) ==
    LET c == CharAt(text, pos)
    IN IF c # NoChar /\ (isdigit(c) \/ c = ".") /\ ~(c = "." /\ dot_count = 1)
       THEN IF c = "."
            THEN make_number(text, pos + 1, whole, frac, dot_count + 1)
            ELSE IF dot_count = 0
            THEN make_number(text, pos + 1, Append(whole, c), frac, dot_count)
            ELSE make_number(text, pos + 1, whole, Append(frac, c), dot_count)
       ELSE [pos |-> pos,
             token |-> IF dot_count = 0
                       THEN Token("LIT_INT", PyInt(IntOf(whole)))
                       ELSE Token("LIT_REAL",
                                  Float(IntOf(whole \o frac), Power10(Len(frac))))]

\* the loop of make_string from pos on: str_val and the pos it stops at
RECURSIVE make_string(_, _, _)
make_string(text, pos, str_val) ==
    LET c == CharAt(text, pos)
    IN IF c # NoChar /\ c # "\""
       THEN make_string(text, pos + 1, str_val \o c)
       ELSE [pos |-> pos, str_val |-> str_val]

\* make_identifier from pos on
RECURSIVE make_identifier(_, _, _)
make_identifier(text, pos, ident_str) ==
    LET c == CharAt(text, pos)
    IN IF c # NoChar /\ (isalnum(c) \/ c = "_")
       THEN make_identifier(text, pos + 1, ident_str \o c)
       ELSE [pos |-> pos, token |-> Token("IDENTIFIER", ident_str)]

\* skip_comment from pos on: the pos of the line end or of the text's end
RECURSIVE skip_comment(_, _)
skip_comment(text, pos) ==
    IF CharAt(text, pos) # NoChar /\ CharAt(text, pos) # "\n"
    THEN skip_comment(text, pos + 1)
    ELSE pos

\* the interpreter is not at work while the Lexer and the Parser are
interpreter ==
    <<symbol_table, heap, stack, result, status, error, nstmts, last, declared>>

\* one turn of the loop of make_tokens is at its test
InMakeTokens == lexer.state = "make_tokens"

\* the Lexer goes on at pos, with the token appended if there is one
Lexed(pos, made) ==
    /\ lexer' = [lexer EXCEPT !.pos = pos, !.tokens = @ \o made]
    /\ UNCHANGED <<interpreter, parser>>

\* self.error(message): raise Exception("Erro Lexico: ...")
LexError(message) ==
    /\ lexer' = [lexer EXCEPT !.state = "raised", !.error = message]
    /\ UNCHANGED <<interpreter, parser>>

\* 1. white space
make_tokens_whitespace ==
    /\ InMakeTokens
    /\ current_char \in Whitespace
    /\ Lexed(lexer.pos + 1, <<>>)

\* 2. a comment
make_tokens_comment ==
    /\ InMakeTokens
    /\ current_char = "U+1F4AD"
    /\ Lexed(skip_comment(lexer.text, lexer.pos + 1), <<>>)

\* 3. a number
make_tokens_number ==
    /\ InMakeTokens
    /\ isdigit(current_char)
    /\ LET made == make_number(lexer.text, lexer.pos, <<>>, <<>>, 0)
       IN Lexed(made.pos, <<made.token>>)

\* 4. a string, were make_string to lack the test of lines 85-86
make_tokens_string_Unchecked ==
    /\ InMakeTokens
    /\ current_char = "\""
    /\ LET made == make_string(lexer.text, lexer.pos + 1, "")
       IN Lexed(made.pos + 1, <<Token("LIT_STRING", made.str_val)>>)

\* 4. a string
make_tokens_string ==
    /\ InMakeTokens
    /\ current_char = "\""
    /\ LET made == make_string(lexer.text, lexer.pos + 1, "")
       IN IF CharAt(lexer.text, made.pos) = NoChar
          THEN LexError("String nao fechada")
          ELSE Lexed(made.pos + 1, <<Token("LIT_STRING", made.str_val)>>)

\* 5. an identifier
make_tokens_identifier ==
    /\ InMakeTokens
    /\ isalpha(current_char) \/ current_char = "_"
    /\ LET made == make_identifier(lexer.text, lexer.pos, "")
       IN Lexed(made.pos, <<made.token>>)

\* none of the cases 1 to 5 took the current character
AtEmoji ==
    /\ InMakeTokens
    /\ current_char # NoChar
    /\ current_char \notin Whitespace \cup {"U+1F4AD", "\"", "_"}
    /\ ~isdigit(current_char)
    /\ ~isalpha(current_char)

two_char_emoji == <<current_char, peeked_char>>

IsTwoCharEmoji == peeked_char # NoChar /\ two_char_emoji \in DOMAIN EMOJI_KEYWORDS

\* 6. a keyword of two code points
make_tokens_two_char ==
    /\ AtEmoji
    /\ IsTwoCharEmoji
    /\ Lexed(lexer.pos + 2,
             <<Token(EMOJI_KEYWORDS[two_char_emoji], two_char_emoji)>>)

\* 6. a keyword of one code point, were it to be looked up before the
\* keyword of two code points
make_tokens_one_char_First ==
    /\ AtEmoji
    /\ <<current_char>> \in DOMAIN EMOJI_KEYWORDS
    /\ Lexed(lexer.pos + 1,
             <<Token(EMOJI_KEYWORDS[<<current_char>>], <<current_char>>)>>)

\* 6. a keyword of one code point
make_tokens_one_char ==
    /\ AtEmoji
    /\ ~IsTwoCharEmoji
    /\ <<current_char>> \in DOMAIN EMOJI_KEYWORDS
    /\ Lexed(lexer.pos + 1,
             <<Token(EMOJI_KEYWORDS[<<current_char>>], <<current_char>>)>>)

\* 7. no case took the character, were a point that no number took to be
\* passed over like white space
make_tokens_error_SkipsPoint ==
    /\ AtEmoji
    /\ ~IsTwoCharEmoji
    /\ <<current_char>> \notin DOMAIN EMOJI_KEYWORDS
    /\ IF current_char = "."
       THEN Lexed(lexer.pos + 1, <<>>)
       ELSE LexError("Caractere ilegal ou emoji desconhecido")

\* 7. no case took the character
make_tokens_error ==
    /\ AtEmoji
    /\ ~IsTwoCharEmoji
    /\ <<current_char>> \notin DOMAIN EMOJI_KEYWORDS
    /\ LexError("Caractere ilegal ou emoji desconhecido")

\* the loop is over: the token of the end of the file is added
make_tokens_return ==
    /\ InMakeTokens
    /\ current_char = NoChar
    /\ lexer' = [lexer EXCEPT !.state = "returned",
                              !.tokens = Append(@, Token("EOF", PyNone))]
    /\ UNCHANGED <<interpreter, parser>>

make_tokens ==
    \/ make_tokens_whitespace
    \/ make_tokens_comment
    \/ make_tokens_number
    \/ make_tokens_string
    \/ make_tokens_identifier
    \/ make_tokens_two_char
    \/ make_tokens_one_char
    \/ make_tokens_error
    \/ make_tokens_return

\* longest text given to the Lexer
MaxText == 4
\* the code points of the texts given to the Lexer: a line end, a digit, the
\* point, the quote, a letter, the one-point keyword U+1F4E6 that also
\* starts a two-point keyword with U+26D4 (no keyword alone), U+2716 that
\* is a keyword only with U+FE0F, the comment sign, and the keywords
\* U+2795 (plus), U+2796 (minus) and U+1F4DC (list), of which the first two
\* each make a two-point keyword with the third
LexChars ==
    {"\n", "1", ".", "\"", "a", "U+1F4E6", "U+26D4", "U+2716", "U+FE0F",
     "U+1F4AD", "U+2795", "U+2796", "U+1F4DC"}

\* Lexer(text), before make_tokens; no Interpreter exists yet
InitLexer ==
    /\ \E n \in 0..MaxText : \E text \in [1..n -> LexChars] :
          lexer = [state |-> "make_tokens", text |-> text, pos |-> 0,
                   tokens |-> <<>>, error |-> ""]
    /\ parser = NoParser
    /\ symbol_table = EmptyDict
    /\ heap = <<>>
    /\ stack = <<>>
    /\ result = PyNone
    /\ status = "none"
    /\ error = ""
    /\ nstmts = 0
    /\ last = NoEvent
    /\ declared = EmptyDict

NextLexer == make_tokens

SpecLexer == InitLexer /\ [][NextLexer]_vars

(***************************************************************************)
(* The Parser (src/Moji/parser.py).  Every method is an operator on the    *)
(* token list and token_idx (counted from 0); it gives the node built and  *)
(* the token_idx reached, or the SyntaxError raised.                       *)
(***************************************************************************)
\* the nodes only the Parser builds
ProgramNodeOf(statements) == [type |-> "ProgramNode", statements |-> statements]
StringNode(value) == [type |-> "StringNode", value |-> PyStr(value)]
UnaryOpNode(op, node) == [type |-> "UnaryOpNode", op |-> op, node |-> node]
PrintNode(node_to_print) == [type |-> "PrintNode", node_to_print |-> node_to_print]
ReadNode(var_name) == [type |-> "ReadNode", var_name |-> var_name]
SaveNode(data_node, filename_node) ==
    [type |-> "SaveNode", data_node |-> data_node, filename_node |-> filename_node]
SleepNode(duration_node) == [type |-> "SleepNode", duration_node |-> duration_node]

\* self.current_token when token_idx is idx: advance leaves it at the last
\* token once the list is exhausted
CurrentToken(tokens, idx) ==
    IF idx < Len(tokens) THEN tokens[idx + 1] ELSE tokens[Len(tokens)]

\* a method returned node with token_idx at idx
Parsed(node, idx) == [raised |-> "", error |-> "", node |-> node, idx |-> idx]
\* a method raised SyntaxError(message)
RaisedSyntaxError(message, idx) ==
    [raised |-> "SyntaxError", error |-> message, node |-> NoNode, idx |-> idx]
Raised(r) == r.raised # ""

\* eat(expected_token_type)
Parser_eat(tokens, idx, expected_token_type) ==
    IF CurrentToken(tokens, idx).type = expected_token_type
    THEN Parsed(NoNode, idx + 1)
    ELSE RaisedSyntaxError("Esperava", idx)

\* what the method does after a call it made: the SyntaxError goes on up,
\* a result goes to the rest of the method
Then(called, rest(_)) == IF Raised(called) THEN called ELSE rest(called)

RECURSIVE Parser_statements(_, _, _, _)
RECURSIVE Parser_statement(_, _)
RECURSIVE Parser_block(_, _)
RECURSIVE Parser_elif_cases(_, _, _)
RECURSIVE Parser_unary(_, _)
RECURSIVE Parser_operations(_, _, _, _)

\* atom
Parser_atom(tokens, idx) ==
    LET token == CurrentToken(tokens, idx)
    IN CASE token.type \in {"LIT_INT", "LIT_REAL"} ->
                Parsed(NumberNode(token.value), idx + 1)
         [] token.type = "LIT_STRING" -> Parsed(StringNode(token.value), idx + 1)
         [] token.type = "IDENTIFIER" -> Parsed(VarAccessNode(token.value), idx + 1)
         [] OTHER -> RaisedSyntaxError("Esperava um Inteiro, Real, String ou Identificador", idx)

\* unary
Parser_unary(tokens, idx) ==
    IF CurrentToken(tokens, idx).type = "LOGIC_NOT"
    THEN Then(Parser_unary(tokens, idx + 1),
              LAMBDA node : Parsed(UnaryOpNode("LOGIC_NOT", node.node), node.idx))
    ELSE Parser_atom(tokens, idx)

\* the operators of comparison, term and factor
ValidOpTypes(level) ==
    CASE level = "comparison" -> {"COMP_EQ", "COMP_GT", "COMP_LT"}
      [] level = "term" -> {"OP_PLUS", "OP_MINUS"}
      [] level = "factor" -> {"OP_MUL", "OP_DIV"}

\* func_to_call of comparison, term and factor
Operand(level) ==
    CASE level = "comparison" -> "term"
      [] level = "term" -> "factor"
      [] level = "factor" -> "unary"

\* binary_operation, were it to read all that follows an operator as the
\* right operand (a op b op c as a op (b op c))
Parser_operations_RightAssoc(tokens, idx, level, left) ==
    IF level = "unary" THEN Parser_unary(tokens, idx)
    ELSE IF left = NoNode
    THEN Then(Parser_operations(tokens, idx, Operand(level), NoNode),
              LAMBDA first : Parser_operations(tokens, first.idx, level, first.node))
    ELSE IF CurrentToken(tokens, idx).type \in ValidOpTypes(level)
    THEN Then(Parser_operations(tokens, idx + 1, level, NoNode),
              LAMBDA right :
                  Parsed(BinOpNode(left, CurrentToken(tokens, idx).type, right.node),
                         right.idx))
    ELSE Parsed(left, idx)

\* binary_operation(func_to_call, valid_op_types) of the level, the level
\* "unary" being unary itself; `left` is NoNode before the first operand
\* was read
Parser_operations(tokens, idx, level, left) ==
    IF level = "unary" THEN Parser_unary(tokens, idx)
    ELSE IF left = NoNode
    THEN Then(Parser_operations(tokens, idx, Operand(level), NoNode),
              LAMBDA first : Parser_operations(tokens, first.idx, level, first.node))
    ELSE IF CurrentToken(tokens, idx).type \in ValidOpTypes(level)
    THEN Then(Parser_operations(tokens, idx + 1, Operand(level), NoNode),
              LAMBDA right :
                  Parser_operations(tokens, right.idx, level,
                                    BinOpNode(left, CurrentToken(tokens, idx).type,
                                              right.node)))
    ELSE Parsed(left, idx)

\* expression, comparison
Parser_expression(tokens, idx) ==
    Parser_operations(tokens, idx, "comparison", NoNode)

\* <expression> END_STATEMENT, the end of most statements: the expression
\* node
Parser_expression_end(tokens, idx) ==
    Then(Parser_expression(tokens, idx),
         LAMBDA value_node :
             Then(Parser_eat(tokens, value_node.idx, "END_STATEMENT"),
                  LAMBDA ended : Parsed(value_node.node, ended.idx)))

\* <identifier> END_STATEMENT: the identifier token's value as the node
Parser_identifier_end(tokens, idx) ==
    Then(Parser_eat(tokens, idx, "IDENTIFIER"),
         LAMBDA named :
             Then(Parser_eat(tokens, named.idx, "END_STATEMENT"),
                  LAMBDA ended : Parsed(CurrentToken(tokens, idx).value, ended.idx)))

\* print_statement
Parser_print_statement(tokens, idx) ==
    Then(Parser_expression_end(tokens, idx + 1),
         LAMBDA node_to_print :
             Parsed(PrintNode(node_to_print.node), node_to_print.idx))

\* read_statement
Parser_read_statement(tokens, idx) ==
    Then(Parser_identifier_end(tokens, idx + 1),
         LAMBDA var_token : Parsed(ReadNode(var_token.node), var_token.idx))

\* var_declaration
Parser_var_declaration(tokens, idx) ==
    LET type_token == CurrentToken(tokens, idx)
        var_name_token == CurrentToken(tokens, idx + 1)
    IN Then(Parser_eat(tokens, idx + 1, "IDENTIFIER"),
            LAMBDA named :
                IF CurrentToken(tokens, named.idx).type = "ASSIGN"
                THEN Then(Parser_expression_end(tokens, named.idx + 1),
                          LAMBDA value_node :
                              Parsed(VarDeclareNode(type_token.type,
                                                    var_name_token.value,
                                                    value_node.node),
                                     value_node.idx))
                ELSE Then(Parser_eat(tokens, named.idx, "END_STATEMENT"),
                          LAMBDA ended :
                              Parsed(VarDeclareNode(type_token.type,
                                                    var_name_token.value, NoNode),
                                     ended.idx)))

\* block
Parser_block(tokens, idx) ==
    Then(Parser_eat(tokens, idx, "BLOCK_START"),
         LAMBDA started :
             Then(Parser_statements(tokens, started.idx, "BLOCK_END", <<>>),
                  LAMBDA statements_list :
                      Then(Parser_eat(tokens, statements_list.idx, "BLOCK_END"),
                           LAMBDA ended :
                               Parsed(BlockNode(statements_list.node), ended.idx))))

\* <condition> <block>: the pair of both nodes
Parser_case(tokens, idx) ==
    Then(Parser_expression(tokens, idx),
         LAMBDA condition :
             Then(Parser_block(tokens, condition.idx),
                  LAMBDA body : Parsed(<<condition.node, body.node>>, body.idx)))

\* the loop over the elif blocks and the else block of if_statement
Parser_elif_cases(tokens, idx, cases) ==
    CASE CurrentToken(tokens, idx).type = "KEYWORD_ELIF" ->
            Then(Parser_case(tokens, idx + 1),
                 LAMBDA case :
                     Parser_elif_cases(tokens, case.idx, Append(cases, case.node)))
      [] CurrentToken(tokens, idx).type = "KEYWORD_ELSE" ->
            Then(Parser_block(tokens, idx + 1),
                 LAMBDA else_case :
                     Parsed(IfNode(cases, else_case.node), else_case.idx))
      [] OTHER -> Parsed(IfNode(cases, NoNode), idx)

\* if_statement
Parser_if_statement(tokens, idx) ==
    Then(Parser_case(tokens, idx + 1),
         LAMBDA case : Parser_elif_cases(tokens, case.idx, <<case.node>>))

\* the loop of func_definition over the names of the arguments: the idx
\* of the first token that is no identifier
RECURSIVE Parser_arg_names(_, _)
Parser_arg_names(tokens, idx) ==
    IF CurrentToken(tokens, idx).type = "IDENTIFIER"
    THEN Parser_arg_names(tokens, idx + 1)
    ELSE idx

\* func_definition
Parser_func_definition(tokens, idx) ==
    Then(Parser_eat(tokens, idx + 1, "IDENTIFIER"),
         LAMBDA named :
             LET args_end == Parser_arg_names(tokens, named.idx)
                 arg_name_tokens ==
                     [i \in 1..(args_end - named.idx) |-> tokens[named.idx + i].value]
             IN Then(Parser_block(tokens, args_end),
                     LAMBDA body_node :
                         Parsed(FuncDefNode(CurrentToken(tokens, idx + 1).value,
                                            arg_name_tokens, body_node.node),
                                body_node.idx)))

\* return_statement
Parser_return_statement(tokens, idx) ==
    IF CurrentToken(tokens, idx + 1).type # "END_STATEMENT"
    THEN Then(Parser_expression_end(tokens, idx + 1),
              LAMBDA node_to_return :
                  Parsed(ReturnNode(node_to_return.node), node_to_return.idx))
    ELSE Parsed(ReturnNode(NoNode), idx + 2)

\* import_statement
Parser_import_statement(tokens, idx) ==
    Then(Parser_identifier_end(tokens, idx + 1),
         LAMBDA module_name_token :
             Parsed(ImportNode(module_name_token.node), module_name_token.idx))

\* save_statement
Parser_save_statement(tokens, idx) ==
    Then(Parser_expression(tokens, idx + 1),
         LAMBDA data_node :
             Then(Parser_expression_end(tokens, data_node.idx),
                  LAMBDA filename_node :
                      Parsed(SaveNode(data_node.node, filename_node.node),
                             filename_node.idx)))

\* sleep_statement
Parser_sleep_statement(tokens, idx) ==
    Then(Parser_expression_end(tokens, idx + 1),
         LAMBDA duration_node :
             Parsed(SleepNode(duration_node.node), duration_node.idx))

\* peek(): the type of the token after the current one, "None" when there
\* is none
PeekType(tokens, idx) ==
    IF idx + 1 < Len(tokens) THEN tokens[idx + 2].type ELSE "None"

\* var_assignment, list_append and list_remove, which the router enters
\* with an identifier and the named token after it
Parser_after_identifier(tokens, idx) ==
    LET name == CurrentToken(tokens, idx).value
        next_token_type == PeekType(tokens, idx)
    IN Then(Parser_expression_end(tokens, idx + 2),
            LAMBDA value_node :
                Parsed(CASE next_token_type = "ASSIGN" ->
                               VarAssignNode(name, value_node.node)
                         [] next_token_type = "KEYWORD_APPEND" ->
                               ListAppendNode(name, value_node.node)
                         [] next_token_type = "KEYWORD_REMOVE" ->
                               ListRemoveNode(name, value_node.node),
                       value_node.idx))

\* statement, were the router to pass over a token that starts no
\* statement instead of raising
Parser_statement_SkipsUnknown(tokens, idx) ==
    LET token_type == CurrentToken(tokens, idx).type
    IN CASE token_type = "KEYWORD_PRINT" -> Parser_print_statement(tokens, idx)
         [] token_type = "KEYWORD_READ" -> Parser_read_statement(tokens, idx)
         [] token_type \in {"KEYWORD_INT", "KEYWORD_REAL", "KEYWORD_STRING",
                            "KEYWORD_LIST"} -> Parser_var_declaration(tokens, idx)
         [] token_type = "KEYWORD_IF" -> Parser_if_statement(tokens, idx)
         [] token_type = "BLOCK_START" -> Parser_block(tokens, idx)
         [] token_type = "KEYWORD_FUN" -> Parser_func_definition(tokens, idx)
         [] token_type = "KEYWORD_RETURN" -> Parser_return_statement(tokens, idx)
         [] token_type = "KEYWORD_IMPORT" -> Parser_import_statement(tokens, idx)
         [] token_type = "KEYWORD_SAVE" -> Parser_save_statement(tokens, idx)
         [] token_type = "KEYWORD_SLEEP" -> Parser_sleep_statement(tokens, idx)
         [] /\ token_type = "IDENTIFIER"
            /\ PeekType(tokens, idx) \in {"ASSIGN", "KEYWORD_APPEND", "KEYWORD_REMOVE"} ->
                Parser_after_identifier(tokens, idx)
         [] OTHER -> Parsed(NoNode, idx + 1)

\* statement: the router
Parser_statement(tokens, idx) ==
    LET token_type == CurrentToken(tokens, idx).type
    IN CASE token_type = "KEYWORD_PRINT" -> Parser_print_statement(tokens, idx)
         [] token_type = "KEYWORD_READ" -> Parser_read_statement(tokens, idx)
         [] token_type \in {"KEYWORD_INT", "KEYWORD_REAL", "KEYWORD_STRING",
                            "KEYWORD_LIST"} -> Parser_var_declaration(tokens, idx)
         [] token_type = "KEYWORD_IF" -> Parser_if_statement(tokens, idx)
         [] token_type = "BLOCK_START" -> Parser_block(tokens, idx)
         [] token_type = "KEYWORD_FUN" -> Parser_func_definition(tokens, idx)
         [] token_type = "KEYWORD_RETURN" -> Parser_return_statement(tokens, idx)
         [] token_type = "KEYWORD_IMPORT" -> Parser_import_statement(tokens, idx)
         [] token_type = "KEYWORD_SAVE" -> Parser_save_statement(tokens, idx)
         [] token_type = "KEYWORD_SLEEP" -> Parser_sleep_statement(tokens, idx)
         [] /\ token_type = "IDENTIFIER"
            /\ PeekType(tokens, idx) \in {"ASSIGN", "KEYWORD_APPEND", "KEYWORD_REMOVE"} ->
                Parser_after_identifier(tokens, idx)
         [] OTHER -> RaisedSyntaxError("Comando inesperado", idx)

\* statements(end_token_type): the loop, statement_list being what it has
\* gathered
Parser_statements(tokens, idx, end_token_type, statement_list) ==
    IF CurrentToken(tokens, idx).type \notin {end_token_type, "EOF"}
    THEN Then(Parser_statement(tokens, idx),
              LAMBDA node :
                  Parser_statements(tokens, node.idx, end_token_type,
                                    Append(statement_list, node.node)))
    ELSE Parsed(statement_list, idx)

\* parse, were it to lack the test of lines 88-89
Parser_parse_NoEndTest(tokens) ==
    Then(Parser_eat(tokens, 0, "PROGRAM_START"),
         LAMBDA started :
             Then(Parser_statements(tokens, started.idx, "PROGRAM_END", <<>>),
                  LAMBDA statement_list :
                      Then(Parser_eat(tokens, statement_list.idx, "PROGRAM_END"),
                           LAMBDA ended :
                               Parsed(ProgramNodeOf(statement_list.node),
                                      ended.idx))))

\* parse
Parser_parse(tokens) ==
    Then(Parser_eat(tokens, 0, "PROGRAM_START"),
         LAMBDA started :
             Then(Parser_statements(tokens, started.idx, "PROGRAM_END", <<>>),
                  LAMBDA statement_list :
                      Then(Parser_eat(tokens, statement_list.idx, "PROGRAM_END"),
                           LAMBDA ended :
                               IF CurrentToken(tokens, ended.idx).type # "EOF"
                               THEN RaisedSyntaxError(
                                        "Codigo encontrado apos o fim do programa",
                                        ended.idx)
                               ELSE Parsed(ProgramNodeOf(statement_list.node),
                                           ended.idx))))

\* the Parser was made and parse() is about to be called
parse ==
    /\ parser.state = "made"
    /\ LET got == Parser_parse(parser.tokens)
       IN parser' = [parser EXCEPT
                        !.state = IF Raised(got) THEN "raised" ELSE "returned",
                        !.token_idx = got.idx,
                        !.raised = got.raised,
                        !.error = got.error,
                        !.ast = got.node]
    /\ UNCHANGED <<interpreter, lexer>>

\* most tokens before the end token in a list given to the Parser
MaxTokens == 5
\* the tokens of the lists given to the Parser
ParseTokens ==
    { Token("PROGRAM_START", <<"U+1F331">>), Token("PROGRAM_END", <<"U+1F333">>),
      Token("KEYWORD_INT", <<"U+1F522">>), Token("IDENTIFIER", "a"),
      Token("END_STATEMENT", <<"U+1F51A">>), Token("LIT_INT", PyInt(1)),
      Token("KEYWORD_RETURN", <<"U+1F519">>) }

\* Parser(tokens) on what a Lexer returned: tokens that are not the end
\* token, then the end token
InitParser ==
    /\ \E n \in 0..MaxTokens : \E tokens \in [1..n -> ParseTokens] :
          parser = [state |-> "made",
                    tokens |-> Append(tokens, Token("EOF", PyNone)),
                    token_idx |-> 0, raised |-> "", error |-> "",
                    ast |-> NoNode]
    /\ lexer = NoLexer
    /\ symbol_table = EmptyDict
    /\ heap = <<>>
    /\ stack = <<>>
    /\ result = PyNone
    /\ status = "none"
    /\ error = ""
    /\ nstmts = 0
    /\ last = NoEvent
    /\ declared = EmptyDict

NextParser == parse

SpecParser == InitParser /\ [][NextParser]_vars

\* most tokens of an expression given to the Parser
MaxExprTokens == 5
\* the tokens of the expressions given to the Parser
ExprTokens ==
    { Token("IDENTIFIER", "a"), Token("LIT_INT", PyInt(1)),
      Token("COMP_EQ", <<"U+2696", "U+FE0F">>), Token("COMP_LT", <<"U+2B07", "U+FE0F">>),
      Token("OP_PLUS", <<"U+2795">>), Token("OP_MINUS", <<"U+2796">>),
      Token("OP_MUL", <<"U+2716", "U+FE0F">>), Token("OP_DIV", <<"U+2797">>),
      Token("LOGIC_NOT", <<"U+1F6AB">>) }

\* the program `return <expression>` around the tokens of an expression
ReturnProgram(expression) ==
    << Token("PROGRAM_START", <<"U+1F331">>), Token("KEYWORD_RETURN", <<"U+1F519">>) >>
    \o expression
    \o << Token("END_STATEMENT", <<"U+1F51A">>), Token("PROGRAM_END", <<"U+1F333">>),
          Token("EOF", PyNone) >>

\* Parser(tokens) on the tokens of a program that returns an expression
InitExpression ==
    /\ \E n \in 1..MaxExprTokens : \E expression \in [1..n -> ExprTokens] :
          parser = [state |-> "made", tokens |-> ReturnProgram(expression),
                    token_idx |-> 0, raised |-> "", error |-> "",
                    ast |-> NoNode]
    /\ lexer = NoLexer
    /\ symbol_table = EmptyDict
    /\ heap = <<>>
    /\ stack = <<>>
    /\ result = PyNone
    /\ status = "none"
    /\ error = ""
    /\ nstmts = 0
    /\ last = NoEvent
    /\ declared = EmptyDict

SpecExpression == InitExpression /\ [][NextParser]_vars

\* the keywords of EMOJI_KEYWORDS that no method of the Parser looks for
UnparsedTokens ==
    { Token("KEYWORD_CALL", <<"U+1F4DE">>), Token("KEYWORD_WHILE", <<"U+23F3">>),
      Token("KEYWORD_FOR", <<"U+1F6B6">>), Token("KEYWORD_GET_AT", <<"U+1F3AF">>),
      Token("KEYWORD_READ_FILE", <<"U+1F4D6">>),
      Token("KEYWORD_APPEND_FILE", <<"U+270D", "U+FE0F">>),
      Token("LOGIC_AND", <<"U+1F91D">>), Token("LOGIC_OR", <<"U+1F300">>) }

\* most tokens of ParseTokens in a list that may also hold one of
\* UnparsedTokens
MaxPlainTokens == 4

\* Parser(tokens) on what a Lexer returned: tokens of ParseTokens with none
\* or one of UnparsedTokens at any place among them, then the end token
InitUnparsed ==
    /\ \E n \in 0..MaxPlainTokens : \E tokens \in [1..n -> ParseTokens] :
       \E at \in 0..n :
       \E unparsed \in {<<>>} \cup {<<token>> : token \in UnparsedTokens} :
          parser = [state |-> "made",
                    tokens |-> SubSeq(tokens, 1, at) \o unparsed
                               \o SubSeq(tokens, at + 1, n)
                               \o <<Token("EOF", PyNone)>>,
                    token_idx |-> 0, raised |-> "", error |-> "",
                    ast |-> NoNode]
    /\ lexer = NoLexer
    /\ symbol_table = EmptyDict
    /\ heap = <<>>
    /\ stack = <<>>
    /\ result = PyNone
    /\ status = "none"
    /\ error = ""
    /\ nstmts = 0
    /\ last = NoEvent
    /\ declared = EmptyDict

SpecUnparsed == InitUnparsed /\ [][NextParser]_vars

(***************************************************************************)
(* The properties.  `last` is the step just taken; last.table and          *)
(* last.lists are the symbol table and the heap before that step.          *)
(***************************************************************************)
\* the binding of `name` is the same in the two tables: bound to the same
\* value, or bound in neither
SameBinding(table1, table2, name) ==
    IF Has(table1, name)
    THEN Has(table2, name) /\ table2[name] = table1[name]
    ELSE ~Has(table2, name)

\* the parameter names of the function whose call has just returned
ReturnedParams == Range(last.info.func_def_node.arg_names)

(* C1: when a function call has returned, every parameter name of the      *)
(* function is bound to exactly the value it had before the call, and is   *)
(* absent from the environment if it was unbound before the call.          *)
C1_ParamsRestored ==
    last.ev = "call_return" =>
        \A name \in ReturnedParams :
            SameBinding(last.info.entry, symbol_table, name)

\* a call has returned that had overwritten a bound parameter name and had
\* bound an unbound one
C1_Witness ==
    /\ last.ev = "call_return"
    /\ \E name \in ReturnedParams :
          /\ Has(last.info.entry, name)
          /\ last.table[name] # last.info.entry[name]
    /\ \E name \in ReturnedParams :
          /\ ~Has(last.info.entry, name)
          /\ Has(last.table, name)

(* C2: calls share the one environment, so an inner call corrupts the      *)
(* bindings of an outer one: when a call returns, every name that is not   *)
(* a parameter of the returning function keeps what the body left in it    *)
(* (nothing but the callee's own parameter names is put back), also when   *)
(* the name is a parameter of a call still running.                        *)
C2_SharedEnvironment ==
    last.ev = "call_return" =>
        \A name \in (DOMAIN symbol_table \cup DOMAIN last.table) \ ReturnedParams :
            SameBinding(last.table, symbol_table, name)

\* an inner call has returned into the body of an outer call with which it
\* shares a parameter name; a parameter of the outer call held the outer
\* call's argument when the inner call started and holds another value now
C2_Witness ==
    /\ last.ev = "call_return"
    /\ \E j \in 1..Len(stack) :
          /\ stack[j].node.type = "FuncCallNode"
          /\ stack[j].pc = "body"
          /\ Range(stack[j].arg_names) \cap ReturnedParams # {}
          /\ \E i \in DOMAIN stack[j].arg_names :
                LET name == stack[j].arg_names[i]
                IN /\ Has(last.info.entry, name)
                   /\ last.info.entry[name] = stack[j].arg_values[i]
                   /\ Has(symbol_table, name)
                   /\ symbol_table[name] # stack[j].arg_values[i]

\* the names bound to a list
ListNames(table) == {name \in DOMAIN table : table[name].t = "list"}

C4_ForEach ==
    /\ last.ev = "for_item" =>
          LET items == last.lists[last.info.list_val.v]
          IN /\ last.info.turn <= Len(items)
             /\ symbol_table[last.node.var_name] = items[last.info.turn]
             /\ Top = Frame(last.node.body_node)
    /\ last.ev = "for_end" =>
          SameBinding(last.info.entry, symbol_table, last.node.var_name)

(* C5: a declaration of a name already in the environment raises without   *)
(* evaluating the initializer and leaves the environment as it was; hence  *)
(* every name is declared at most once in a run.                           *)
C5_DeclareOnce ==
    [][ /\ (At("VarDeclareNode", "start") /\ Has(symbol_table, Top.node.var_name)) =>
              /\ status' = "error"
              /\ error' = "Variavel ja foi declarada"
              /\ stack' = <<>>
              /\ result' = result
              /\ symbol_table' = symbol_table
              /\ heap' = heap
        /\ \A name \in DOMAIN declared' : declared'[name] <= 1 ]_vars

(* C6: an assignment to a name that is not in the environment raises       *)
(* without evaluating the value expression, and the name is not added.     *)
C6_AssignUndeclared ==
    [][ (At("VarAssignNode", "start")
            /\ ~Has(symbol_table, Top.node.var_name)) =>
            /\ status' = "error"
            /\ error' = "Variavel nao declarada"
            /\ stack' = <<>>
            /\ result' = result
            /\ symbol_table' = symbol_table
            /\ heap' = heap ]_vars

\* an assignment of the result of a call to an undeclared name has raised,
\* the call not made
C6_Witness ==
    /\ last.ev = "raise"
    /\ last.node.type = "VarAssignNode"
    /\ last.node.value_node.type = "FuncCallNode"
    /\ error = "Variavel nao declarada"
    /\ ~Has(symbol_table, last.node.var_name)
    /\ symbol_table = last.table
    /\ Has(symbol_table, "f")

(* C7: a name declared once and assigned N times reads as the N-th         *)
(* assigned value, whatever the values: an assignment binds the name to    *)
(* the value of its expression, and a read of a bound name yields the      *)
(* value the name is bound to.                                             *)
C7_ReadsLastAssigned ==
    [][ /\ At("VarAssignNode", "value") =>
              /\ Has(symbol_table', Top.node.var_name)
              /\ symbol_table'[Top.node.var_name] = result
        /\ (At("VarAccessNode", "start") /\ Has(symbol_table, Top.node.var_name)) =>
              /\ status' = "running"
              /\ result' = symbol_table[Top.node.var_name] ]_vars

\* the value the call at the top of the stack looks up as its function
Callee == Get(symbol_table, Top.node.node_to_call.var_name)

(* C8: a call whose argument count differs from the parameter count of     *)
(* the function raises, reporting the expected and the given count, before *)
(* any argument is evaluated, and leaves the environment as it was.        *)
C8_ArityMismatch ==
    [][ ( /\ At("FuncCallNode", "start")
          /\ Callee.t = "FuncDefNode"
          /\ Len(Callee.v.arg_names) # Len(Top.node.arg_nodes) ) =>
            /\ status' = "error"
            /\ error' = "numero de argumentos"
            /\ last'.info = [expected |-> Len(Callee.v.arg_names),
                             given |-> Len(Top.node.arg_nodes)]
            /\ stack' = <<>>
            /\ result' = result
            /\ symbol_table' = symbol_table
            /\ heap' = heap ]_vars

\* a call of the two-parameter f with one argument has raised
C8_Witness ==
    /\ last.ev = "raise"
    /\ last.node.type = "FuncCallNode"
    /\ error = "numero de argumentos"
    /\ last.info = [expected |-> 2, given |-> 1]
    /\ symbol_table = last.table
    /\ stack = <<>>

\* visit_ReturnNode is about to raise the ReturnSignal
ReturnRaises ==
    /\ status = "running" /\ stack # <<>>
    /\ Top.node.type = "ReturnNode"
    /\ Top.pc = "value" \/ Top.node.node_to_return = NoNode

(* C9: a Return at any depth inside a function body is caught by the       *)
(* nearest enclosing call, which yields the carried value and lets its     *)
(* caller go on; a Return outside every call ends the run with a           *)
(* RuntimeError.                                                           *)
C9_ReturnUnwinds ==
    [][ /\ (ReturnRaises /\ Catcher # 0) =>
              /\ status' = "running"
              /\ Len(stack') = Catcher
              /\ SubSeq(stack', 1, Catcher - 1) = SubSeq(stack, 1, Catcher - 1)
              /\ stack'[Catcher].node = stack[Catcher].node
              /\ stack'[Catcher].return_value =
                     (IF Top.pc = "value" THEN result ELSE PyNone)
        /\ (ReturnRaises /\ Catcher = 0) =>
              /\ status' = "error"
              /\ error' = "Return fora de uma funcao"
        /\ At("FuncCallNode", "cleanup") =>
              /\ status' = "running"
              /\ result' = Top.return_value
              /\ stack' = SubSeq(stack, 1, Len(stack) - 1) ]_vars

(* C10: a remove at index i of a list of N elements removes the element    *)
(* and shifts the later ones down exactly when 0 <= i < N; every other     *)
(* integer index (i < 0 or i >= N) raises and leaves the list as it was.   *)
C10_ListRemove ==
    [][ (At("ListRemoveNode", "index") /\ IsInt(result)) =>
            LET ref == Top.list_obj.v
                items == heap[ref]
                i == result.v
                N == Len(items)
            IN IF 0 <= i /\ i < N
               THEN /\ status' = "running"
                    /\ heap' = [heap EXCEPT ![ref] =
                                   SubSeq(items, 1, i) \o SubSeq(items, i + 2, N)]
               ELSE /\ status' = "error"
                    /\ error' = "Indice fora do alcance"
                    /\ heap' = heap ]_vars

(* C11: an append through a name bound to a list of N elements changes   *)
(* that very list object to N+1 elements, the appended value at index N    *)
(* (the last place) and the first N elements as they were; no binding and  *)
(* no other list changes.                                                  *)
C11_AppendInPlace ==
    [][ At("ListAppendNode", "value") =>
            LET ref == Top.list_obj.v
                N == Len(heap[ref])
            IN /\ status' = "running"
               /\ Top.list_obj = symbol_table[Top.node.list_name]
               /\ symbol_table' = symbol_table
               /\ DOMAIN heap' = DOMAIN heap
               /\ \A r \in DOMAIN heap \ {ref} : heap'[r] = heap[r]
               /\ Len(heap'[ref]) = N + 1
               /\ heap'[ref][N + 1] = result
               /\ SubSeq(heap'[ref], 1, N) = heap[ref] ]_vars

\* an append has put a value behind the elements of a list that was not
\* empty
C11_Witness ==
    /\ last.ev = "append"
    /\ LET ref == symbol_table[last.node.list_name].v
       IN /\ Len(last.lists[ref]) >= 1
          /\ Len(heap[ref]) = Len(last.lists[ref]) + 1

\* the symbol table of the interpreter that ran the module
ModuleTable(items) ==
    [name \in {items[i][1] : i \in DOMAIN items} |->
        LET i == CHOOSE i \in DOMAIN items : items[i][1] = name IN items[i][2]]

(* C12: an import of a module whose top-level environment shares a name    *)
(* with the caller's environment raises RuntimeError; an import of a       *)
(* module that shares no name adds every binding of the module's           *)
(* environment to the caller's and changes no binding the caller had.      *)
C12_ImportMerges ==
    [][ (At("ImportNode", "start") /\ ModuleRun(Top.node.module_name).raised = "") =>
            LET module == ModuleTable(ModuleRun(Top.node.module_name).items)
            IN IF DOMAIN module \cap DOMAIN symbol_table # {}
               THEN /\ status' = "error"
                    /\ error' = "Erro ao importar o modulo"
               ELSE /\ status' = "running"
                    /\ DOMAIN symbol_table' = DOMAIN symbol_table \cup DOMAIN module
                    /\ \A name \in DOMAIN module :
                          symbol_table'[name] = module[name]
                    /\ \A name \in DOMAIN symbol_table :
                          symbol_table'[name] = symbol_table[name] ]_vars

\* an import has added the two bindings of a module to bindings the caller
\* had
C12_Witness ==
    /\ last.ev = "import"
    /\ Len(last.info.items) = 2
    /\ last.table # EmptyDict
    /\ DOMAIN symbol_table = DOMAIN last.table \cup {"g", "x"}
    /\ DOMAIN last.table \cap {"g", "x"} = {}

(* C13: a while evaluates its condition before every iteration and runs   *)
(* its body only after a truthy value: the condition is visited when the   *)
(* loop is entered and again after every run of the body, a truthy value   *)
(* starts the body and the first falsy value ends the loop, with as many   *)
(* runs of the body as truthy values; `while p < 3 { p := p + 1 }` entered *)
(* with p = 0 runs its body exactly 3 times and leaves p = 3.              *)
C13_While ==
    [][ /\ ( /\ status = "running" /\ stack # <<>>
             /\ Top.node.type = "WhileNode"
             /\ Top.pc \in {"start", "body"} ) =>
              /\ Len(stack') = Len(stack) + 1
              /\ stack'[Len(stack)].node = Top.node
              /\ stack'[Len(stack')] = Frame(Top.node.condition_node)
        /\ (At("WhileNode", "cond") /\ Truthy(result, heap)) =>
              /\ Len(stack') = Len(stack) + 1
              /\ stack'[Len(stack)].node = Top.node
              /\ stack'[Len(stack')] = Frame(Top.node.body_node)
        /\ (At("WhileNode", "cond") /\ ~Truthy(result, heap)) =>
              /\ stack' = SubSeq(stack, 1, Len(stack) - 1)
              /\ Top.runs = Top.truthy
              /\ ( /\ Top.node = WhileP
                   /\ Get(Top.entry, "p") = PyInt(0) ) =>
                     /\ Top.runs = 3
                     /\ symbol_table["p"] = PyInt(3) ]_vars

\* the loop `while p < 3 { p := p + 1 }`, entered with p = 0, has ended
C13_Witness ==
    /\ last.ev = "while_end"
    /\ last.node = WhileP
    /\ Get(last.info.entry, "p") = PyInt(0)
    /\ last.info.runs = 3
    /\ symbol_table["p"] = PyInt(3)

(* C14: an if evaluates its conditions in order and the first truthy one  *)
(* wins: only the block of the first truthy condition runs and no later    *)
(* condition is evaluated; the else-block runs only when every condition   *)
(* was falsy; at most one block of the chain runs.                         *)
C14_IfFirstMatch ==
    last.ev = "if_end" =>
        LET conds == last.info.conds
            blocks == last.info.blocks
            n == Len(conds)
        IN /\ Len(blocks) <= 1
           /\ n <= Len(last.node.cases)
           /\ \A j \in 1..(n - 1) : conds[j] = FALSE
           /\ (n > 0 /\ conds[n]) => blocks = <<n>>
           /\ (n = 0 \/ ~conds[n]) =>
                 /\ n = Len(last.node.cases)
                 /\ blocks = IF last.node.else_case # NoNode THEN <<0>> ELSE <<>>

\* the chain `if x < 2 {..} elif x == 2 {..} else {..}` has ended after its
\* first block, which made the second condition true
C14_Witness ==
    /\ last.ev = "if_end"
    /\ last.node = IfChain
    /\ last.info.conds = <<TRUE>>
    /\ last.info.blocks = <<1>>
    /\ symbol_table["x"] = PyInt(2)

\* the RuntimeErrors run can raise
RuntimeErrors ==
    { "Return fora de uma funcao", "Erro interno do Moji",
      "Variavel nao foi definida", "Variavel ja foi declarada",
      "Variavel nao declarada", "Nao e possivel iterar",
      "Variavel de lista nao encontrada", "nao e uma lista",
      "Indice deve ser um inteiro", "Indice fora do alcance",
      "Funcao ou variavel ja foi definida", "Funcao nao foi definida",
      "nao e uma funcao", "numero de argumentos",
      "Arquivo de modulo nao encontrado", "Erro ao ler modulo",
      "Erro ao importar o modulo", "Divisao por zero",
      "Operador binario desconhecido" }

(* C15: a runtime failure at any point ends the whole run: run raises a    *)
(* RuntimeError, also for a failure of the host (a wrong operand type);    *)
(* nothing is executed after the failing point, and what was done before   *)
(* it stays done.                                                          *)
C15_FailureEndsRun ==
    [][ /\ status = "error" => UNCHANGED vars
        /\ error' # error => (status = "running" /\ status' = "error")
        /\ status' = "error" =>
              /\ stack' = <<>>
              /\ error' \in RuntimeErrors
              /\ heap' = heap
              /\ nstmts' = nstmts
              /\ declared' = declared
              /\ \/ symbol_table' = symbol_table
                 \/ Top.node.type \in {"FuncCallNode", "ImportNode"} ]_vars

\* a subtraction from a list has ended a run that had made bindings and had
\* statements left to take
C15_Witness ==
    /\ status = "error"
    /\ error = "Erro interno do Moji"
    /\ last.ev = "raise"
    /\ last.node.type = "BinOpNode"
    /\ stack = <<>>
    /\ nstmts < MaxStmts
    /\ symbol_table = last.table
    /\ Has(symbol_table, "p") /\ Has(symbol_table, "l")

\* the number is zero, integer or real (False is the integer 0 of Python)
IsZero(x) == Numeric(x) /\ Frac(x)[1] = 0

(* C16: a division whose right operand equals zero, integer or real,       *)
(* raises the division-by-zero RuntimeError whatever the left operand is;  *)
(* a division of a number by a number that is not zero yields the real     *)
(* quotient (5 / 2 is 2.5, not 2).                                         *)
C16_Division ==
    [][ (At("BinOpNode", "right") /\ Top.node.op = "OP_DIV") =>
            LET left_val == Top.left_val
                right_val == result
            IN /\ IsZero(right_val) =>
                     /\ status' = "error"
                     /\ error' = "Divisao por zero"
               /\ (Numeric(left_val) /\ Numeric(right_val) /\ ~IsZero(right_val)) =>
                     /\ status' = "running"
                     /\ result'.t = "float"
                     /\ result'.v[2] > 0
                     /\ result'.v[1] * Frac(left_val)[2] * Frac(right_val)[1]
                           = result'.v[2] * Frac(left_val)[1] * Frac(right_val)[2]
               /\ (left_val = PyInt(5) /\ right_val = PyInt(2)) =>
                     result' = PyFloat(5, 2) ]_vars

\* a text divided by the real zero has raised the division by zero
C16_Witness ==
    /\ status = "error"
    /\ error = "Divisao por zero"
    /\ last.ev = "raise"
    /\ last.node.type = "BinOpNode"
    /\ last.node.op = "OP_DIV"
    /\ Get(symbol_table, last.node.left_node.var_name) = PyStr("a")
    /\ Get(symbol_table, last.node.right_node.var_name) = PyFloat(0, 1)

(* C17: an addition with at least one text operand yields the              *)
(* concatenation of the textual representations of both operands           *)
(* ("a" + 1 is "a1"); every other addition is the numeric addition of its  *)
(* operands (2 + 3 is 5), which operands that are no numbers fail.         *)
C17_Addition ==
    [][ (At("BinOpNode", "right") /\ Top.node.op = "OP_PLUS") =>
            LET left_val == Top.left_val
                right_val == result
            IN /\ IF left_val.t = "str" \/ right_val.t = "str"
                  THEN /\ status' = "running"
                       /\ result' = PyStr(StrOf(left_val, heap, FALSE)
                                            \o StrOf(right_val, heap, FALSE))
                  ELSE IF Numeric(left_val) /\ Numeric(right_val)
                  THEN /\ status' = "running"
                       /\ Numeric(result')
                       /\ Frac(result')[1] * Frac(left_val)[2] * Frac(right_val)[2]
                             = Frac(result')[2]
                                 * (Frac(left_val)[1] * Frac(right_val)[2]
                                    + Frac(right_val)[1] * Frac(left_val)[2])
                  ELSE status' = "error"
               /\ (left_val = PyStr("a") /\ right_val = PyInt(1)) =>
                     result' = PyStr("a1")
               /\ (left_val = PyInt(2) /\ right_val = PyInt(3)) =>
                     result' = PyInt(5) ]_vars

(* C18: a function definition binds the function's name to the            *)
(* definition node itself; when the name is already bound, to a variable   *)
(* or to a function, it raises RuntimeError and the existing binding (and  *)
(* every other) stays as it was.                                           *)
C18_FunctionDefine ==
    [][ At("FuncDefNode", "start") =>
            LET func_name == Top.node.func_name
            IN IF Has(symbol_table, func_name)
               THEN /\ status' = "error"
                    /\ error' = "Funcao ou variavel ja foi definida"
                    /\ symbol_table' = symbol_table
               ELSE /\ status' = "running"
                    /\ Has(symbol_table', func_name)
                    /\ symbol_table'[func_name].t = "FuncDefNode"
                    /\ symbol_table'[func_name].v = Top.node
                    /\ \A name \in (DOMAIN symbol_table \cup DOMAIN symbol_table')
                                       \ {func_name} :
                          SameBinding(symbol_table, symbol_table', name) ]_vars

\* the definition of g was refused because g is a variable, which it stays
C18_Witness ==
    /\ status = "error"
    /\ error = "Funcao ou variavel ja foi definida"
    /\ last.ev = "raise"
    /\ last.node.type = "FuncDefNode"
    /\ Has(symbol_table, last.node.func_name)
    /\ symbol_table[last.node.func_name].t = "int"

\* the code point starts a key of EMOJI_KEYWORDS
KeywordStart(c) == \E key \in DOMAIN EMOJI_KEYWORDS : key[1] = c

\* no quote from pos on
Unclosed(text, pos) == \A i \in (pos + 1)..Len(text) : text[i] # "\""

(* C20: what make_tokens returns ends with the token of the end of input,  *)
(* and no other token of it is that token.  make_tokens raises a lex error *)
(* and returns nothing when it comes to a quote that no later quote        *)
(* closes, or to a character that is no white space, no digit, no quote,   *)
(* no start of an identifier and no start of a keyword of one or two code  *)
(* points.                                                                 *)
C20_Tokenize ==
    [][ /\ lexer'.state = "returned" =>
              /\ lexer'.tokens # <<>>
              /\ \A i \in 1..Len(lexer'.tokens) :
                    lexer'.tokens[i].type = "EOF" <=> i = Len(lexer'.tokens)
        /\ (InMakeTokens /\ current_char = "\""
              /\ Unclosed(lexer.text, lexer.pos + 1)) =>
              /\ lexer'.state = "raised"
              /\ lexer'.error = "String nao fechada"
        /\ (InMakeTokens /\ current_char # NoChar
              /\ current_char \notin Whitespace
              /\ ~isdigit(current_char)
              /\ current_char # "\""
              /\ ~(isalpha(current_char) \/ current_char = "_")
              /\ ~KeywordStart(current_char)) =>
              /\ lexer'.state = "raised"
              /\ lexer'.error = "Caractere ilegal ou emoji desconhecido"
        /\ lexer.state = "raised" => lexer' = lexer ]_vars

\* make_tokens has returned a number, an identifier and the end token
C20_Witness ==
    /\ lexer.state = "returned"
    /\ Len(lexer.tokens) = 3
    /\ lexer.tokens[1].type = "LIT_INT"
    /\ lexer.tokens[2].type = "IDENTIFIER"
    /\ lexer.tokens[3].type = "EOF"

\* a token of the list follows a program terminator: the terminator at
\* index i is not the last token before the end token
LeftAfterTerminator(tokens) ==
    \E i \in 1..Len(tokens) :
        tokens[i].type = "PROGRAM_END" /\ i + 1 < Len(tokens)

\* C19: parse succeeds only if it consumed every token up to and including
\* the program terminator and the token after it is the end of the input:
\* when parse has returned, it returned a ProgramNode, the token it stopped
\* at is the end token that closes the list, and the token before it, the
\* last one it consumed, is the program terminator.  A list in which a token
\* is left after a program terminator makes parse raise SyntaxError and
\* return no AST.
C19_ParseConsumesAll ==
    /\ parser.state = "returned" =>
          /\ parser.ast.type = "ProgramNode"
          /\ parser.token_idx = Len(parser.tokens) - 1
          /\ parser.token_idx >= 2
          /\ parser.tokens[parser.token_idx].type = "PROGRAM_END"
          /\ CurrentToken(parser.tokens, parser.token_idx).type = "EOF"
          /\ ~LeftAfterTerminator(parser.tokens)
    /\ (parser.state \in {"returned", "raised"} /\ LeftAfterTerminator(parser.tokens)) =>
          /\ parser.state = "raised"
          /\ parser.raised = "SyntaxError"
          /\ parser.ast = NoNode

\* parse ate the program terminator, found a token after it and raised
C19_Witness ==
    /\ parser.state = "raised"
    /\ parser.raised = "SyntaxError"
    /\ parser.error = "Codigo encontrado apos o fim do programa"
    /\ parser.tokens[parser.token_idx].type = "PROGRAM_END"
    /\ parser.ast = NoNode

\* make_number is about to read a literal that it ends at a second decimal
\* point
StopsAtSecondPoint ==
    /\ InMakeTokens
    /\ isdigit(current_char)
    /\ CharAt(lexer.text, make_number(lexer.text, lexer.pos, <<>>, <<>>, 0).pos) = "."

\* the loop is at the second decimal point of the literal that make_number
\* has just ended there
AtSecondPoint ==
    /\ InMakeTokens
    /\ current_char = "."
    /\ lexer.pos > 0
    /\ CharAt(lexer.text, lexer.pos - 1) \in Digits \cup {"."}
    /\ lexer.tokens # <<>>
    /\ lexer.tokens[Len(lexer.tokens)].type = "LIT_REAL"

\* the literal is ended at its second decimal point without an error: the
\* turn of the loop that reads it appends one LIT_REAL token and leaves the
\* Lexer at that point
LiteralEndsAtSecondPoint ==
    StopsAtSecondPoint =>
        /\ lexer'.state = "make_tokens"
        /\ Len(lexer'.tokens) = Len(lexer.tokens) + 1
        /\ AtSecondPoint'

\* C21 as stated: tokenizing a numeric literal with a second decimal point
\* raises no error: the literal is ended at the second point and
\* make_tokens goes on from there towards returning its tokens.
C21_SecondPointNoError ==
    [][ /\ LiteralEndsAtSecondPoint
        /\ AtSecondPoint => lexer'.state # "raised" ]_vars

\* C21 as amended: make_number ends a numeric literal at its second decimal
\* point without an error and its LIT_REAL token is appended, but the next
\* turn of the loop of make_tokens finds that point to be no token start and
\* raises "Caractere ilegal ou emoji desconhecido"; after the raise the Lexer
\* does nothing more, so no token list is returned for such a text.
C21_SecondPointRaises ==
    [][ /\ LiteralEndsAtSecondPoint
        /\ AtSecondPoint =>
              /\ lexer'.state = "raised"
              /\ lexer'.error = "Caractere ilegal ou emoji desconhecido"
              /\ lexer'.tokens = lexer.tokens
        /\ lexer.state = "raised" => lexer' = lexer ]_vars

\* the Lexer raised at the second decimal point of a literal, after the
\* LIT_REAL token of the literal was appended
C21_Witness ==
    /\ lexer.state = "raised"
    /\ lexer.error = "Caractere ilegal ou emoji desconhecido"
    /\ CharAt(lexer.text, lexer.pos) = "."
    /\ lexer.pos >= 2
    /\ CharAt(lexer.text, lexer.pos - 1) \in Digits \cup {"."}
    /\ lexer.tokens # <<>>
    /\ lexer.tokens[Len(lexer.tokens)].type = "LIT_REAL"

\* C22: a FunctionCall evaluates all of its argument expressions, left to
\* right, in the caller's environment before any parameter name is rebound.
\* The steps of the call before step 3 (the look-up, the count and the
\* return from each argument) leave the symbol table as it is; a call that
\* waits for an argument waits for the one after those it already has; at
\* step 3 there is one value per argument expression, the value of an
\* argument that reads a name - also a name that is a parameter of the
\* callee - is what the symbol table still holds for it, and only then are
\* names rebound, and only names of parameters.
C22_ArgumentsBeforeBinding ==
    [][ /\ (At("FuncCallNode", "start") \/ At("FuncCallNode", "arg")) =>
              symbol_table' = symbol_table
        /\ \A k \in 1..(Len(stack') - 1) :
              (stack'[k].node.type = "FuncCallNode" /\ stack'[k].pc = "arg") =>
                  /\ Len(stack'[k].arg_values) < Len(stack'[k].node.arg_nodes)
                  /\ stack'[k + 1].node =
                        stack'[k].node.arg_nodes[Len(stack'[k].arg_values) + 1]
        /\ (At("FuncCallNode", "call") /\ last'.ev = "call") =>
              /\ Len(Top.arg_values) = Len(Top.node.arg_nodes)
              /\ \A i \in 1..Len(Top.node.arg_nodes) :
                    Top.node.arg_nodes[i].type = "VarAccessNode" =>
                        Top.arg_values[i] =
                            symbol_table[Top.node.arg_nodes[i].var_name]
              /\ \A name \in DOMAIN symbol_table \cup DOMAIN symbol_table' :
                    ~SameBinding(symbol_table, symbol_table', name) =>
                        name \in Range(Top.func_def_node.arg_names) ]_vars

\* a call with two arguments that read the names of the callee's two
\* parameters, crosswise, got the two different values the caller had
C22_Witness ==
    /\ last.ev = "call"
    /\ Len(last.node.arg_nodes) = 2
    /\ last.node.arg_nodes[1].type = "VarAccessNode"
    /\ last.node.arg_nodes[2].type = "VarAccessNode"
    /\ LET arg_names == last.table[last.node.node_to_call.var_name].v.arg_names
       IN /\ last.node.arg_nodes[1].var_name = arg_names[2]
          /\ last.node.arg_nodes[2].var_name = arg_names[1]
          /\ last.info.arg_values[1] # last.info.arg_values[2]
          /\ last.info.arg_values[1] = last.table[arg_names[2]]
          /\ last.info.arg_values[2] = last.table[arg_names[1]]
          /\ symbol_table[arg_names[1]] = last.info.arg_values[1]
          /\ symbol_table[arg_names[2]] = last.info.arg_values[2]

\* how tightly the operator of an expression node binds: comparison
\* loosest, then additive, multiplicative, logical not, and the atoms
Binding(node) ==
    CASE node.type = "BinOpNode" /\ node.op \in {"COMP_EQ", "COMP_GT", "COMP_LT"} -> 1
      [] node.type = "BinOpNode" /\ node.op \in {"OP_PLUS", "OP_MINUS"} -> 2
      [] node.type = "BinOpNode" /\ node.op \in {"OP_MUL", "OP_DIV"} -> 3
      [] node.type = "UnaryOpNode" -> 4
      [] OTHER -> 5

\* every binary node of the tree has a left operand that binds as tightly
\* as it or tighter and a right operand that binds tighter; the operand of
\* a logical not is a logical not or an atom
RECURSIVE LeftAssociative(_)
LeftAssociative(node) ==
    CASE node.type = "BinOpNode" ->
            /\ Binding(node.left_node) >= Binding(node)
            /\ Binding(node.right_node) > Binding(node)
            /\ LeftAssociative(node.left_node)
            /\ LeftAssociative(node.right_node)
      [] node.type = "UnaryOpNode" ->
            /\ Binding(node.node) >= 4
            /\ LeftAssociative(node.node)
      [] OTHER -> TRUE

\* the token types of an expression tree, read from left to right
RECURSIVE Infix(_)
Infix(node) ==
    CASE node.type = "BinOpNode" ->
            Infix(node.left_node) \o <<node.op>> \o Infix(node.right_node)
      [] node.type = "UnaryOpNode" -> <<node.op>> \o Infix(node.node)
      [] node.type = "NumberNode" -> <<"LIT_INT">>
      [] node.type = "VarAccessNode" -> <<"IDENTIFIER">>

\* the expression of the program `return <expression>` that parse returned
ReturnedExpression == parser.ast.statements[1].node_to_return

\* C23: the parser builds every chain of binary operators of one precedence
\* level as a left-associative tree, comparison binding loosest, then
\* additive, then multiplicative, then logical not, then atoms: in the tree
\* parse returns for an expression, the left operand of a binary node binds
\* as tightly as the node or tighter, its right operand binds tighter (so
\* a op b op c is (a op b) op c, a multiplicative node has no additive or
\* comparison operand and an additive node no comparison operand), and the
\* tree read from left to right is the expression given.
C23_LeftAssociative ==
    parser.state = "returned" =>
        /\ LeftAssociative(ReturnedExpression)
        /\ Infix(ReturnedExpression) =
              [i \in 1..(Len(parser.tokens) - 5) |-> parser.tokens[i + 2].type]

\* a op b op c with both operators of one level was parsed: the left
\* operand of the root is the node of the first operator
C23_Witness ==
    /\ parser.state = "returned"
    /\ Len(parser.tokens) = 10
    /\ ReturnedExpression.type = "BinOpNode"
    /\ ReturnedExpression.op = parser.tokens[6].type
    /\ ReturnedExpression.left_node.type = "BinOpNode"
    /\ ReturnedExpression.left_node.op = parser.tokens[4].type
    /\ Binding(ReturnedExpression.left_node) = Binding(ReturnedExpression)
    /\ ReturnedExpression.right_node.type \in {"NumberNode", "VarAccessNode"}

\* the loop of make_tokens is at a code point that forms a keyword together
\* with the code point after it
AtCompoundKeyword ==
    /\ InMakeTokens
    /\ current_char # NoChar
    /\ peeked_char # NoChar
    /\ <<current_char, peeked_char>> \in DOMAIN EMOJI_KEYWORDS

\* C24: the lexer matches two-codepoint keywords greedily before
\* single-codepoint ones: whenever the current and the next code point
\* together form a keyword (block terminator, list-append, list-remove),
\* the turn of the loop appends exactly one token, of that compound kind and
\* with both code points as its value, and passes both code points; it never
\* appends the token of the first code point alone (block start, plus,
\* minus).
C24_GreedyCompound ==
    [][ AtCompoundKeyword =>
            /\ lexer'.state = "make_tokens"
            /\ lexer'.pos = lexer.pos + 2
            /\ lexer'.tokens =
                  Append(lexer.tokens,
                         Token(EMOJI_KEYWORDS[<<current_char, peeked_char>>],
                               <<current_char, peeked_char>>)) ]_vars

\* plus followed by the list keyword was read as the one token list-append
\* although both code points are keywords of their own
C24_Witness ==
    /\ lexer.state \in {"make_tokens", "returned"}
    /\ lexer.pos >= 2
    /\ CharAt(lexer.text, lexer.pos - 2) = "U+2795"
    /\ CharAt(lexer.text, lexer.pos - 1) = "U+1F4DC"
    /\ <<"U+2795">> \in DOMAIN EMOJI_KEYWORDS
    /\ <<"U+1F4DC">> \in DOMAIN EMOJI_KEYWORDS
    /\ lexer.tokens # <<>>
    /\ \E i \in 1..Len(lexer.tokens) :
          /\ lexer.tokens[i] = Token("KEYWORD_APPEND", <<"U+2795", "U+1F4DC">>)
          /\ \A j \in 1..Len(lexer.tokens) :
                lexer.tokens[j].type \notin {"OP_PLUS", "KEYWORD_LIST"}

\* C25: when a Return inside a ForEach body unwinds out of the enclosing
\* function call, the restore of the loop variable is skipped: in the step
\* in which the call returns after a ReturnSignal that left a loop, the name
\* of the loop variable (of the innermost loop of that name, when it is no
\* parameter of the function) is bound to the item of the turn that was
\* running, whatever it was bound to before the loop.
C25_ReturnSkipsLoopRestore ==
    [][ (last.ev = "return" /\ last.info.catcher # 0 /\ last'.ev = "call_return") =>
            \A loop \in last.info.loops :
                ( /\ loop.var_name \notin Range(last'.info.func_def_node.arg_names)
                  /\ \A other \in last.info.loops :
                        other.var_name = loop.var_name => other.depth <= loop.depth ) =>
                    /\ Has(symbol_table', loop.var_name)
                    /\ symbol_table'[loop.var_name] = loop.item ]_vars

\* k has returned from inside its loop over l: y, which no name of the
\* table was before the call and no parameter of k is, is bound to the item
\* that was returned
C25_Witness ==
    /\ last.ev = "call_return"
    /\ last.info.func_def_node.func_name = "k"
    /\ last.info.return_value # PyNone
    /\ ~Has(last.info.entry, "y")
    /\ Has(symbol_table, "y")
    /\ symbol_table["y"] = last.info.return_value

\* C26: names declared inside a function body (variable declarations and
\* nested function definitions) are not removed when the call returns, so a
\* second call of the same function raises the redeclaration RuntimeError at
\* that declaration.  The step in which a call returns keeps, with its
\* value, every name that came into the symbol table during the call and is
\* no parameter; and a declaration or function definition reached inside a
\* function body for a name that is in the symbol table raises the
\* RuntimeError of the redeclaration and declares nothing.
C26_BodyNamesStay ==
    [][ /\ last'.ev = "call_return" =>
              \A name \in DOMAIN symbol_table \ DOMAIN last'.info.entry :
                  name \notin Range(last'.info.func_def_node.arg_names) =>
                      /\ Has(symbol_table', name)
                      /\ symbol_table'[name] = symbol_table[name]
        /\ (Catcher # 0 /\ At("VarDeclareNode", "start")
              /\ Has(symbol_table, Top.node.var_name)) =>
              /\ status' = "error"
              /\ error' = "Variavel ja foi declarada"
              /\ symbol_table' = symbol_table
        /\ (Catcher # 0 /\ At("FuncDefNode", "start")
              /\ Has(symbol_table, Top.node.func_name)) =>
              /\ status' = "error"
              /\ error' = "Funcao ou variavel ja foi definida"
              /\ symbol_table' = symbol_table ]_vars

\* the second call of k raised at `int z`: z, which only the body of k
\* declares, was still in the symbol table
C26_Witness ==
    /\ status = "error"
    /\ error = "Variavel ja foi declarada"
    /\ last.ev = "raise"
    /\ last.node = VarDeclareNode("KEYWORD_INT", "z", NoNode)
    /\ Has(last.table, "z")
    /\ Count(declared, "z") = 1
    /\ last.depth > 2

\* C27: ForEach iterates over the live list value, not a snapshot taken at
\* loop start.  A turn of the loop binds the loop variable to the item the
\* list has now at the place of the turn, and the loop ends only when its
\* turns are as many as the items the list has now, so items that the body
\* appended are visited later in the same loop; a loop over l whose body
\* appends to l in every turn goes on to another turn after every turn and
\* never ends once it has begun a turn.
C27_LiveIteration ==
    [][ /\ (At("ForNode", "loop") /\ last'.ev = "for_item") =>
              /\ Top.it < Len(heap[Top.list_val.v])
              /\ symbol_table'[Top.node.var_name] = heap[Top.list_val.v][Top.it + 1]
        /\ (At("ForNode", "loop") /\ last'.ev = "for_end") =>
              Top.it = Len(heap[Top.list_val.v])
        /\ (At("ForNode", "loop") /\ Top.node = ForAppend /\ Top.it >= 1) =>
              /\ Len(heap[Top.list_val.v]) = Len(Top.lists[Top.list_val.v]) + Top.it
              /\ last'.ev = "for_item" ]_vars

\* a turn of the loop that appends to its list visits an item that the
\* list did not have when the loop started
C27_Witness ==
    /\ last.ev = "for_item"
    /\ last.node = ForAppend
    /\ stack[last.depth].node = ForAppend
    /\ last.info.turn > Len(stack[last.depth].lists[last.info.list_val.v])
    /\ symbol_table["x"] = heap[last.info.list_val.v][last.info.turn]

\* the name is in the symbol table, bound to None
BoundToNone(name) == Has(symbol_table, name) /\ symbol_table[name] = PyNone

\* C28: a name bound to None (for example a variable assigned the result of
\* a call whose body executed no Return with a value) is treated as
\* undefined by a read and as declared by an assignment: a VarAccessNode of
\* it raises the RuntimeError of the undefined variable and leaves the name
\* in the symbol table, while a VarAssignNode to it does not raise, goes on
\* to evaluate its value and then binds the name to that value.
C28_NoneReadsAsUndefined ==
    [][ /\ (At("VarAccessNode", "start") /\ BoundToNone(Top.node.var_name)) =>
              /\ status' = "error"
              /\ error' = "Variavel nao foi definida"
              /\ Has(symbol_table', Top.node.var_name)
              /\ symbol_table'[Top.node.var_name] = PyNone
        /\ (At("VarAssignNode", "start") /\ BoundToNone(Top.node.var_name)) =>
              /\ status' = "running"
              /\ Len(stack') = Len(stack) + 1
              /\ stack'[Len(stack')].node = Top.node.value_node
        /\ (At("VarAssignNode", "value") /\ BoundToNone(Top.node.var_name)) =>
              /\ status' = "running"
              /\ symbol_table' = Put(symbol_table, Top.node.var_name, result) ]_vars

\* the read of x raised while x was in the symbol table, bound to the None
\* that a call had returned
C28_Witness ==
    /\ status = "error"
    /\ error = "Variavel nao foi definida"
    /\ last.ev = "raise"
    /\ last.node = VarAccessNode("x")
    /\ Has(last.table, "x")
    /\ last.table["x"] = PyNone
    /\ Has(symbol_table, "x")

\* the types of the nodes of an AST
RECURSIVE NodeTypes(_)
NodeTypes(node) ==
    {node.type} \cup
    CASE node.type \in {"ProgramNode", "BlockNode"} ->
            UNION {NodeTypes(node.statements[i]) : i \in DOMAIN node.statements}
      [] node.type = "ReturnNode" -> NodeTypes(node.node_to_return)
      [] node.type \in {"VarDeclareNode", "VarAssignNode", "ListAppendNode"} ->
            NodeTypes(node.value_node)
      [] node.type = "ListRemoveNode" -> NodeTypes(node.index_node)
      [] node.type = "PrintNode" -> NodeTypes(node.node_to_print)
      [] node.type = "SleepNode" -> NodeTypes(node.duration_node)
      [] node.type = "SaveNode" ->
            NodeTypes(node.data_node) \cup NodeTypes(node.filename_node)
      [] node.type = "IfNode" ->
            UNION {NodeTypes(node.cases[i][1]) \cup NodeTypes(node.cases[i][2]) :
                     i \in DOMAIN node.cases}
            \cup NodeTypes(node.else_case)
      [] node.type = "FuncDefNode" -> NodeTypes(node.body_node)
      [] node.type = "BinOpNode" ->
            NodeTypes(node.left_node) \cup NodeTypes(node.right_node)
      [] node.type = "UnaryOpNode" -> NodeTypes(node.node)
      [] OTHER -> {}

\* the token types of UnparsedTokens: call, while, for, list index, file
\* read, file append, logical and, logical or
UnparsedTypes == {token.type : token \in UnparsedTokens}

\* C29: parse rejects with SyntaxError every token list of the Lexer that
\* holds a token of kind call, while, for, list-index, file-read,
\* file-append, logical-and or logical-or, and returns no AST for it;
\* consequently no AST that parse returns has a While, For, FuncCall,
\* ListAccess, FileRead, TypeCast or FileAppend node.
C29_UnparsedRejected ==
    /\ ( /\ parser.state \in {"returned", "raised"}
         /\ \E i \in DOMAIN parser.tokens : parser.tokens[i].type \in UnparsedTypes ) =>
            /\ parser.state = "raised"
            /\ parser.raised = "SyntaxError"
            /\ parser.ast = NoNode
    /\ parser.state = "returned" =>
            NodeTypes(parser.ast) \cap
                {"WhileNode", "ForNode", "FuncCallNode", "ListAccessNode",
                 "FileReadNode", "TypeCastNode", "FileAppendNode"} = {}

\* parse raised SyntaxError at the call keyword that stands in the place
\* of the value of a return statement
C29_Witness ==
    /\ parser.state = "raised"
    /\ parser.raised = "SyntaxError"
    /\ parser.ast = NoNode
    /\ Len(parser.tokens) >= 5
    /\ parser.tokens[1].type = "PROGRAM_START"
    /\ parser.tokens[2].type = "KEYWORD_RETURN"
    /\ parser.tokens[3].type = "KEYWORD_CALL"
    /\ parser.token_idx = 2
    /\ \A i \in DOMAIN parser.tokens : i # 3 => parser.tokens[i].type \notin UnparsedTypes

====
